---------------------------- MODULE Spec2Model ----------------------------
(***************************************************************************)
(* A model of the pbix package: the rewriting of field references in the   *)
(* layout of a thin Power BI report (src/src/pbix/visual.py and            *)
(* src/src/pbix/report.py) and the driver that writes the container back   *)
(* (src/samples/replace_field.py).                                         *)
(*                                                                         *)
(* JSON documents are records and sequences.  A jsonpath expression is     *)
(* modelled by the selection it makes on the documents of the model:       *)
(*   - a Select entry {Name: N, <kind>: {Expression: {SourceRef:           *)
(*     {Source: a}}, Property: p}} is [Name |-> N, Source |-> a,           *)
(*     Property |-> p];                                                    *)
(*   - a From entry is [Name |-> alias, Entity |-> table, Type |-> n];     *)
(*   - a Where node {Condition: ...} is the sequence, in document order,   *)
(*     of the column references [Source, Property] inside the condition;   *)
(*   - an OrderBy entry is [Source |-> a, Property |-> p];                 *)
(*   - a qualifier "Table.Field" is the sequence <<"Table", ".", "Field">> *)
(*     of its pieces, so that str.split(".") is computed and not assumed;  *)
(*   - an alias is the sequence of its characters.                         *)
(***************************************************************************)
EXTENDS Integers, Sequences, FiniteSets, TLC

\* An optional value (a key that may be missing, a value that may be None)
\* is a sequence of length 0 or 1.
Nothing == <<>>

Some(x) == <<x>>

\* ------------------------------------------------------------------------
\* Bounds of the model.
\* ------------------------------------------------------------------------
\* The longest Select list of a generated semantic query.
MaxSelect == 2
\* The longest From list given to the alias generator.
MaxFrom == 3
\* The largest number of visuals of a generated report.
MaxVisuals == 2
\* The largest number of update_fields calls made on one object.
MaxCalls == 2

\* The worker processes of the pool.
MaxWorkers == 2

\* ------------------------------------------------------------------------
\* Sequence helpers.
\* ------------------------------------------------------------------------
Range(s) == {s[i] : i \in DOMAIN s}

SetMin(S) == CHOOSE x \in S : \A y \in S : x <= y

SetMax(S) == CHOOSE x \in S : \A y \in S : x >= y

\* list.remove(x): s without its first element equal to x.
ListRemove(s, x) ==
    LET idx == {i \in DOMAIN s : s[i] = x}
    IN  IF idx = {} THEN s
        ELSE LET k == SetMin(idx)
             IN  SubSeq(s, 1, k - 1) \o SubSeq(s, k + 1, Len(s))

\* ------------------------------------------------------------------------
\* Strings.
\* ------------------------------------------------------------------------
\* Every JSON string value is a text: the sequence of its pieces.  A table or
\* field name is one piece, "Table.Field" is <<"Table", ".", "Field">>, an
\* alias is the sequence of its characters, "" is <<>>.
Text(piece) == <<piece>>

\* f"{table}.{field}"
Qualified(table, field) == table \o <<".">> \o field

\* str.split("."): the texts between the dots.
RECURSIVE SplitDot(_)
SplitDot(q) ==
    IF q = <<>> THEN << <<>> >>
    ELSE LET rest == SplitDot(Tail(q))
         IN  IF Head(q) = "." THEN << <<>> >> \o rest
             ELSE << <<Head(q)>> \o Head(rest) >> \o Tail(rest)

\* table_new[:1].lower(), for the table names of the model.
FirstCharLower(table) ==
    IF table = <<>> THEN <<>>
    ELSE CASE Head(table) = "Sales"     -> <<"s">>
           [] Head(table) = "Stores"    -> <<"s">>
           [] Head(table) = "Orders"    -> <<"o">>
           [] Head(table) = "Customers" -> <<"c">>
           [] OTHER                     -> <<"x">>

\* The value of one character after re.sub("[^0-9]", "0", name).
DigitValue(ch) ==
    CASE ch = "1" -> 1 [] ch = "2" -> 2 [] ch = "3" -> 3 [] ch = "4" -> 4
      [] ch = "5" -> 5 [] ch = "6" -> 6 [] ch = "7" -> 7 [] ch = "8" -> 8
      [] ch = "9" -> 9 [] OTHER -> 0

\* int(regex.sub("0", name)): every non-digit counts as the digit 0.
RECURSIVE AliasNumber(_)
AliasNumber(name) ==
    IF name = <<>> THEN 0
    ELSE 10 * AliasNumber(SubSeq(name, 1, Len(name) - 1))
         + DigitValue(name[Len(name)])

DigitChar(d) ==
    CASE d = 0 -> "0" [] d = 1 -> "1" [] d = 2 -> "2" [] d = 3 -> "3"
      [] d = 4 -> "4" [] d = 5 -> "5" [] d = 6 -> "6" [] d = 7 -> "7"
      [] d = 8 -> "8" [] OTHER -> "9"

\* str(n), as a sequence of characters.
RECURSIVE IntToStr(_)
IntToStr(n) ==
    IF n < 10 THEN <<DigitChar(n)>>
    ELSE IntToStr(n \div 10) \o <<DigitChar(n % 10)>>


\* ------------------------------------------------------------------------
\* SemanticQuery (visual.py): a query block [From, Select, Where, OrderBy].
\* A missing Select, Where or OrderBy is the empty sequence: every jsonpath
\* find or update on None selects nothing, and "if self.where" treats None
\* and [] alike.
\* ------------------------------------------------------------------------
\* What _return_from_table_alias returns when no From entry matches.  It is
\* no sequence of characters, so it equals no alias; formatted into a path
\* it is the text 'None', which no Source of the model carries.
NoAlias == <<"None">>

\* A variant that never finds the table in From.
Mutant_never_finds_alias(frm, table) == NoAlias

\* parse("$[?(@.Entity=='{table}')].Name").find(self.frm), first match.
SemanticQuery_return_from_table_alias(frm, table) ==
    LET idx == {i \in DOMAIN frm : frm[i].Entity = table}
    IN  IF idx = {} THEN NoAlias ELSE frm[SetMin(idx)].Name

\* parse("$.[*].Name").find(self.frm)
SemanticQuery_return_from_tables(frm) == [i \in DOMAIN frm |-> frm[i].Name]

\* self.frm.append({"Name": name, "Entity": table, "Type": 0})
SemanticQuery_add_from_table(frm, table, name) ==
    Append(frm, [Name |-> name, Entity |-> table, Type |-> 0])

\* The Sources of the Select entries whose Name differs from table_field_old.
SemanticQuery_return_select_tables(select, table_field_old) ==
    {select[i].Source : i \in {j \in DOMAIN select : select[j].Name # table_field_old}}

\* parse("$[?(@..Source!='{alias}')]..Source"): the filter keeps a Where
\* node when SOME Source in it differs from alias; every Source of the
\* kept nodes is returned.
SemanticQuery_return_where_tables(where, alias) ==
    UNION {{where[i][k].Source : k \in DOMAIN where[i]} :
           i \in {j \in DOMAIN where :
                    \E k \in DOMAIN where[j] : where[j][k].Source # alias}}

\* for table in self.frm: if table["Name"] == alias: self.frm.remove(table)
\* The list is changed while it is iterated: after a removal the iterator's
\* index still advances.
RECURSIVE PruneLoop(_, _, _)
PruneLoop(frm, i, alias) ==
    IF i > Len(frm) THEN frm
    ELSE IF frm[i].Name = alias
         THEN PruneLoop(ListRemove(frm, frm[i]), i + 1, alias)
         ELSE PruneLoop(frm, i + 1, alias)

SemanticQuery_prune_from_tables(q, table_field_old, table_old) ==
    LET table_alias_old == SemanticQuery_return_from_table_alias(q.From, table_old)
        selects == SemanticQuery_return_select_tables(q.Select, table_field_old)
        wheres  == SemanticQuery_return_where_tables(q.Where, table_alias_old)
    IN  IF table_alias_old \notin selects /\ table_alias_old \notin wheres
        THEN [q EXCEPT !.From = PruneLoop(q.From, 1, table_alias_old)]
        ELSE q

\* A variant that appends the largest number itself, not the next one.
Mutant_alias_without_increment(frm, table_new) ==
    LET alias == FirstCharLower(table_new)
        names == SemanticQuery_return_from_tables(frm)
        nums  == {AliasNumber(names[i]) :
                  i \in {j \in DOMAIN names : SubSeq(names[j], 1, 1) = alias}}
    IN  IF nums # {} THEN alias \o IntToStr(SetMax(nums)) ELSE alias

SemanticQuery_generate_table_aliases(frm, table_new) ==
    LET alias == FirstCharLower(table_new)
        names == SemanticQuery_return_from_tables(frm)
        nums  == {AliasNumber(names[i]) :
                  i \in {j \in DOMAIN names : SubSeq(names[j], 1, 1) = alias}}
    IN  IF nums # {} THEN alias \o IntToStr(SetMax(nums) + 1) ELSE alias

\* A variant that leaves every Source of Select as it is.
Mutant_select_aliases_untouched(select, table_field, name) == select

\* parse("$[?(@.Name=='{table_field}')].*.Expression.SourceRef.Source")
SemanticQuery_update_select_table_aliases(select, table_field, name) ==
    [i \in DOMAIN select |->
        IF select[i].Name = table_field
        THEN [select[i] EXCEPT !.Source = name] ELSE select[i]]

\* A variant that sets the Property of every Select entry, whatever its Name.
Mutant_select_fields_unkeyed(select, table_field, field) ==
    [i \in DOMAIN select |-> [select[i] EXCEPT !.Property = field]]

\* parse("$[?(@.Name=='{table_field}')].*.Property")
SemanticQuery_update_select_fields(select, table_field, field) ==
    [i \in DOMAIN select |->
        IF select[i].Name = table_field
        THEN [select[i] EXCEPT !.Property = field] ELSE select[i]]

\* parse("$[?(@.Name=='{table_field_old}')].Name")
SemanticQuery_update_select_table_fields(select, table_field_old, table_field_new) ==
    [i \in DOMAIN select |->
        IF select[i].Name = table_field_old
        THEN [select[i] EXCEPT !.Name = table_field_new] ELSE select[i]]

\* parse("$[?(@.Expression.*.Property=='{field_old}')]
\*        .Expression.*.Expression.SourceRef.Source")
SemanticQuery_update_orderby_table_aliases(order_by, field_old, alias_new) ==
    [i \in DOMAIN order_by |->
        IF order_by[i].Property = field_old
        THEN [order_by[i] EXCEPT !.Source = alias_new] ELSE order_by[i]]

\* parse("$[?(@.Expression.*.Property=='{field_old}')].Expression.*.Property")
SemanticQuery_update_orderby_fields(order_by, field_old, field_new) ==
    [i \in DOMAIN order_by |->
        IF order_by[i].Property = field_old
        THEN [order_by[i] EXCEPT !.Property = field_new] ELSE order_by[i]]

\* path.find(condition)[0] on a condition without any Property.
WhereConditionRaises(condition) == condition = <<>>

\* if parse("$..Property").find(condition)[0].value == field_old:
\*     parse("$..Source").update(condition, name)
SemanticQuery_update_where_table_aliases(condition, field_old, name) ==
    IF condition[1].Property = field_old
    THEN [k \in DOMAIN condition |-> [condition[k] EXCEPT !.Source = name]]
    ELSE condition

\* if parse("$..Property").find(condition)[0].value == field_old:
\*     path.update(condition, field_new)
SemanticQuery_update_where_fields(condition, field_old, field_new) ==
    IF condition[1].Property = field_old
    THEN [k \in DOMAIN condition |-> [condition[k] EXCEPT !.Property = field_new]]
    ELSE condition

SemanticQuery_update_where_settings(where, field_old, field_new, name) ==
    [i \in DOMAIN where |->
        SemanticQuery_update_where_fields(
            SemanticQuery_update_where_table_aliases(where[i], field_old, name),
            field_old, field_new)]

\* Steps 2 and later of update_fields, on the query q left by the pruning.
SemanticQuery_after_prune(q, table_field_old, table_field_new, table_new, field_old, field_new) ==
    LET found == SemanticQuery_return_from_table_alias(q.From, table_new)
        table_alias_new ==
            IF found = NoAlias \/ found = <<>>
            THEN SemanticQuery_generate_table_aliases(q.From, table_new)
            ELSE found
        frm == IF found = NoAlias \/ found = <<>>
               THEN SemanticQuery_add_from_table(q.From, table_new, table_alias_new)
               ELSE q.From
        sel1 == SemanticQuery_update_select_table_aliases(
                    q.Select, table_field_old, table_alias_new)
        sel2 == SemanticQuery_update_select_fields(sel1, table_field_old, field_new)
        ob1  == SemanticQuery_update_orderby_table_aliases(
                    q.OrderBy, field_old, table_alias_new)
        ob2  == SemanticQuery_update_orderby_fields(ob1, field_old, field_new)
        wh   == IF q.Where # <<>>
                THEN SemanticQuery_update_where_settings(
                         q.Where, field_old, field_new, table_alias_new)
                ELSE q.Where
        sel3 == SemanticQuery_update_select_table_fields(
                    sel2, table_field_old, table_field_new)
    IN  [From |-> frm, Select |-> sel3, Where |-> wh, OrderBy |-> ob2]

\* SemanticQuery.update_fields raises (IndexError) on a Where condition
\* that holds no Property.
SemanticQuery_raises(q) ==
    \E i \in DOMAIN q.Where : WhereConditionRaises(q.Where[i])

SemanticQuery_update_fields(q, table_field_old, table_field_new, table_old, table_new, field_old, field_new) ==
    SemanticQuery_after_prune(
        SemanticQuery_prune_from_tables(q, table_field_old, table_old),
        table_field_old, table_field_new, table_new, field_old, field_new)


\* ------------------------------------------------------------------------
\* JSON-encoded strings.  The text of an encoded document is the document
\* and the way it is written out (separators, spacing): Power BI writes
\* compact JSON, json.dumps writes ", " and ": ".  json.loads forgets the
\* writing, json.dumps always produces its own.
\* ------------------------------------------------------------------------
JsonText(document, writing) == [doc |-> document, fmt |-> writing]

JsonLoads(text) == text.doc

JsonDumps(document) == JsonText(document, "dumps")

\* ------------------------------------------------------------------------
\* The documents of a visual.
\*   config:         [visualType, prototypeQuery, columnProperties,
\*                    projections, objects]                (singleVisual)
\*   objects:        optional [dataPoint, metadata]: dataPoint is the
\*                   optional sequence of the nested objects with a Property
\*                   and an Expression.SourceRef.Entity, metadata the
\*                   selector.metadata values of the entries of objects.*
\*   filters:        sequence of [Entity, Property, filter], filter the
\*                   optional semantic query of the filter
\*   query:          [Commands], a sequence of semantic queries
\*   dataTransforms: [selects, queryMetadata, objects], a selects entry
\*                   is [queryName, displayName, Entity, Property] with
\*                   displayName optional, queryMetadata is
\*                   [Select, Filters] with Select entries [Name]
\* ------------------------------------------------------------------------

\* for node in nodes: if <Entity of node> == table_old: ... of
\* _update_object_datapoints.  nodes are the objects found with
\* Property == field_old before the loop; each update is given the found
\* node (a datum in its context), from which the path "$.." climbs to the
\* root of self.datapoint: it rewrites the Property of EVERY object with
\* Property == field_old, then the Entity of EVERY object with
\* Property == field_new.
RECURSIVE DatapointLoop(_, _, _, _, _, _)
DatapointLoop(dp, nodes, table_old, table_new, field_old, field_new) ==
    IF nodes = <<>> THEN dp
    ELSE LET i == Head(nodes)
             afterField ==
                 [k \in DOMAIN dp |->
                    IF dp[k].Property = field_old
                    THEN [dp[k] EXCEPT !.Property = field_new] ELSE dp[k]]
             afterTable ==
                 [k \in DOMAIN dp |->
                    IF afterField[k].Property = field_new
                    THEN [afterField[k] EXCEPT !.Entity = table_new]
                    ELSE afterField[k]]
         IN  DatapointLoop(IF dp[i].Entity = table_old THEN afterTable ELSE dp,
                           Tail(nodes), table_old, table_new, field_old, field_new)

\* Config._update_object_datapoints and DataTransforms._update_object_datapoints
\* (the same code) on self.datapoint, an optional sequence.
Config_update_object_datapoints(datapoint, table_old, table_new, field_old, field_new) ==
    IF datapoint = Nothing THEN datapoint
    ELSE LET HasOldField(i) == datapoint[1][i].Property = field_old
             nodes == SelectSeq([i \in 1..Len(datapoint[1]) |-> i], HasOldField)
         IN  Some(DatapointLoop(datapoint[1], nodes,
                                table_old, table_new, field_old, field_new))

\* A variant that leaves columnProperties as it is.
Mutant_column_properties_untouched(column_properties, table_field_old, table_field_new) ==
    column_properties

\* column_properties[table_field_new] = column_properties.pop(table_field_old)
Config_prune_column_properties(column_properties, table_field_old, table_field_new) ==
    IF table_field_old \in DOMAIN column_properties
    THEN [k \in (DOMAIN column_properties \ {table_field_old}) \cup {table_field_new} |->
            IF k = table_field_new THEN column_properties[table_field_old]
            ELSE column_properties[k]]
    ELSE column_properties

\* parse("$.objects.*[?(@.selector.metadata=='{old}')].selector.metadata")
Config_update_singlevisual_table_fields(objects, table_field_old, table_field_new) ==
    IF objects = Nothing THEN objects
    ELSE Some([objects[1] EXCEPT !.metadata =
                 [i \in DOMAIN @ |-> IF @[i] = table_field_old
                                     THEN table_field_new ELSE @[i]]])

\* Mutant: the projections are left as they are.
Mutant_projections_untouched(projections, table_field_old, table_field_new) ==
    projections

\* parse("$.projections.*[?(@.queryRef=='{old}')].queryRef")
Config_update_projections_table_fields(projections, table_field_old, table_field_new) ==
    [i \in DOMAIN projections |->
        IF projections[i] = table_field_old THEN table_field_new ELSE projections[i]]

\* Config.__init__ raises AttributeError when singleVisual has no objects:
\* self.objects is None and self.objects.get("dataPoint") is evaluated.
Config_init_raises(config) == config.objects = Nothing

\* self.datapoint of Config and of DataTransforms
DatapointOf(objects) == objects[1].dataPoint

WithDatapoint(objects, datapoint) == Some([objects[1] EXCEPT !.dataPoint = datapoint])

Config_update_fields(config, table_field_old, table_field_new, table_old, table_new, field_old, field_new) ==
    LET pq  == SemanticQuery_update_fields(
                   config.prototypeQuery, table_field_old, table_field_new,
                   table_old, table_new, field_old, field_new)
        cp  == Config_prune_column_properties(
                   config.columnProperties, table_field_old, table_field_new)
        ob1 == WithDatapoint(config.objects,
                   Config_update_object_datapoints(
                       DatapointOf(config.objects), table_old, table_new,
                       field_old, field_new))
        ob2 == Config_update_singlevisual_table_fields(
                   ob1, table_field_old, table_field_new)
        pr  == Config_update_projections_table_fields(
                   config.projections, table_field_old, table_field_new)
    IN  [config EXCEPT !.prototypeQuery = pq, !.columnProperties = cp,
                       !.objects = ob2, !.projections = pr]

\* Query.update_fields: every command's query.
Query_update_fields(visual_query, table_field_old, table_field_new, table_old, table_new, field_old, field_new) ==
    [visual_query EXCEPT !.Commands =
        [i \in DOMAIN @ |->
            SemanticQuery_update_fields(@[i], table_field_old, table_field_new,
                                        table_old, table_new, field_old, field_new)]]

Query_raises(visual_query) ==
    \E i \in DOMAIN visual_query.Commands : SemanticQuery_raises(visual_query.Commands[i])

\* DataTransforms.__init__ raises AttributeError when there is no objects key.
DataTransforms_init_raises(data_transforms) == data_transforms.objects = Nothing

\* parse("$.selects[?(@.queryName=='{old}')].expr.*.Expression.SourceRef.Entity")
DataTransforms_update_selects_tables(selects, table_field_old, table_new) ==
    [i \in DOMAIN selects |->
        IF selects[i].queryName = table_field_old
        THEN [selects[i] EXCEPT !.Entity = table_new] ELSE selects[i]]

\* parse("$.selects[?(@.queryName=='{old}')].expr.*.Property")
DataTransforms_update_selects_fields(selects, table_field_old, field) ==
    [i \in DOMAIN selects |->
        IF selects[i].queryName = table_field_old
        THEN [selects[i] EXCEPT !.Property = field] ELSE selects[i]]

\* The selects entries parse("$.selects[?(@.queryName=='{old}')].displayName")
\* finds: those named old that have a displayName.
DisplayNameNodes(selects, table_field_old) ==
    LET Found(i) == selects[i].queryName = table_field_old /\ selects[i].displayName # Nothing
    IN  SelectSeq([i \in 1..Len(selects) |-> i], Found)

\* node[0] of _update_selects_display_names when nothing was found.
DataTransforms_display_names_raises(selects, table_field_old) ==
    DisplayNameNodes(selects, table_field_old) = <<>>

\* if node[0].value == field_old: path.update(self.data_transforms, field_new)
DataTransforms_update_selects_display_names(selects, table_field_old, field_old, field_new) ==
    LET node == DisplayNameNodes(selects, table_field_old)
    IN  IF selects[node[1]].displayName = Some(field_old)
        THEN [i \in DOMAIN selects |->
                IF selects[i].queryName = table_field_old /\ selects[i].displayName # Nothing
                THEN [selects[i] EXCEPT !.displayName = Some(field_new)]
                ELSE selects[i]]
        ELSE selects

\* parse("$.selects[?(@.queryName=='{old}')].queryName")
DataTransforms_update_selects_table_fields(selects, table_field_old, table_field_new) ==
    [i \in DOMAIN selects |->
        IF selects[i].queryName = table_field_old
        THEN [selects[i] EXCEPT !.queryName = table_field_new] ELSE selects[i]]

\* parse("$.queryMetadata.Select[?(@.Name=='{old}')].Name")
DataTransforms_update_query_metadata_table_fields(select, table_field_old, table_field_new) ==
    [i \in DOMAIN select |->
        IF select[i].Name = table_field_old
        THEN [select[i] EXCEPT !.Name = table_field_new] ELSE select[i]]

\* parse("$.Filters[?(@.expression.*.Property=='{field_old}')]
\*        .expression.*.Expression.SourceRef.Entity")
DataTransforms_update_filters_metadata_tables(filters, field_old, table_new) ==
    [i \in DOMAIN filters |->
        IF filters[i].Property = field_old
        THEN [filters[i] EXCEPT !.Entity = table_new] ELSE filters[i]]

\* parse("$.Filters[?(@.expression.*.Property=='{field_old}')].expression.*.Property")
DataTransforms_update_filters_metadata_fields(filters, field_old, field_new) ==
    [i \in DOMAIN filters |->
        IF filters[i].Property = field_old
        THEN [filters[i] EXCEPT !.Property = field_new] ELSE filters[i]]

DataTransforms_raises(data_transforms, table_field_old) ==
    DataTransforms_display_names_raises(data_transforms.selects, table_field_old)

DataTransforms_update_fields(data_transforms, table_field_old, table_field_new, table_old, table_new, field_old, field_new) ==
    LET ob1 == Config_update_singlevisual_table_fields(
                   data_transforms.objects, table_field_old, table_field_new)
        ob2 == WithDatapoint(ob1,
                   Config_update_object_datapoints(
                       DatapointOf(ob1), table_old, table_new, field_old, field_new))
        s1  == DataTransforms_update_selects_tables(
                   data_transforms.selects, table_field_old, table_new)
        s2  == DataTransforms_update_selects_fields(s1, table_field_old, field_new)
        s3  == DataTransforms_update_selects_display_names(
                   s2, table_field_old, field_old, field_new)
        f1  == DataTransforms_update_filters_metadata_tables(
                   data_transforms.queryMetadata.Filters, field_old, table_new)
        f2  == DataTransforms_update_filters_metadata_fields(f1, field_old, field_new)
        s4  == DataTransforms_update_selects_table_fields(
                   s3, table_field_old, table_field_new)
        m   == DataTransforms_update_query_metadata_table_fields(
                   data_transforms.queryMetadata.Select, table_field_old, table_field_new)
    IN  [selects |-> s4, queryMetadata |-> [Select |-> m, Filters |-> f2],
         objects |-> ob2]

\* Filters._update_semantic_queries: the filter sub-query of every entry
\* whose expression has Property == field_old.
Filters_update_semantic_queries(filters, table_field_old, table_field_new, table_old, table_new, field_old, field_new) ==
    [i \in DOMAIN filters |->
        IF filters[i].Property = field_old /\ filters[i].filter # Nothing
        THEN [filters[i] EXCEPT !.filter =
                Some(SemanticQuery_update_fields(
                        @[1], table_field_old, table_field_new,
                        table_old, table_new, field_old, field_new))]
        ELSE filters[i]]

\* parse("$[?(@.expression.*.Property=='{field_old}')]
\*        .expression.*.Expression.SourceRef.Entity")
Filters_update_tables(filters, field_old, table_new) ==
    [i \in DOMAIN filters |->
        IF filters[i].Property = field_old
        THEN [filters[i] EXCEPT !.Entity = table_new] ELSE filters[i]]

\* parse("$[?(@.expression.*.Property=='{field_old}')].expression.*.Property")
Filters_update_fields_step(filters, field_old, field_new) ==
    [i \in DOMAIN filters |->
        IF filters[i].Property = field_old
        THEN [filters[i] EXCEPT !.Property = field_new] ELSE filters[i]]

Filters_raises(filters, field_old) ==
    \E i \in DOMAIN filters :
        /\ filters[i].Property = field_old
        /\ filters[i].filter # Nothing
        /\ SemanticQuery_raises(filters[i].filter[1])

Filters_update_fields(filters, table_field_old, table_field_new, table_old, table_new, field_old, field_new) ==
    Filters_update_fields_step(
        Filters_update_tables(
            Filters_update_semantic_queries(
                filters, table_field_old, table_field_new,
                table_old, table_new, field_old, field_new),
            field_old, table_new),
        field_old, field_new)

\* ------------------------------------------------------------------------
\* DataVisual (visual.py).  The layout of a visual is the record
\* [config, filters, query, dataTransforms] of its JSON-encoded strings,
\* query and dataTransforms optional.
\* ------------------------------------------------------------------------
\* The objects of a semantic query that have a key Name: its From entries
\* (children Name, Entity, Type) and its Select entries (children Name and
\* the expression object).  True when one of them has a child equal to X.
QueryMentions(q, X) ==
    \/ \E i \in DOMAIN q.From : q.From[i].Name = X \/ q.From[i].Entity = X
    \/ \E i \in DOMAIN q.Select : q.Select[i].Name = X

\* parse("$..@[?(@.*=='{X}')].[queryRef, Name, queryName]").find(document):
\* an object anywhere below the root that has SOME child equal to X and has
\* one of the keys queryRef, Name, queryName.
ConfigMentions(config, X) ==
    \/ QueryMentions(config.prototypeQuery, X)
    \/ \E i \in DOMAIN config.projections : config.projections[i] = X

FiltersMention(filters, X) ==
    \E i \in DOMAIN filters :
        filters[i].filter # Nothing /\ QueryMentions(filters[i].filter[1], X)

QueryDocMentions(visual_query, X) ==
    \E i \in DOMAIN visual_query.Commands : QueryMentions(visual_query.Commands[i], X)

DataTransformsMention(data_transforms, X) ==
    \/ \E i \in DOMAIN data_transforms.selects :
          \/ data_transforms.selects[i].queryName = X
          \/ data_transforms.selects[i].displayName = Some(X)
    \/ \E i \in DOMAIN data_transforms.queryMetadata.Select :
          data_transforms.queryMetadata.Select[i].Name = X

\* DataVisual.find_field on the parsed sub-documents of a layout.
DataVisual_find_field(layout, table_field) ==
    \/ ConfigMentions(JsonLoads(layout.config), table_field)
    \/ FiltersMention(JsonLoads(layout.filters), table_field)
    \/ layout.query # Nothing
       /\ QueryDocMentions(JsonLoads(layout.query[1]), table_field)
    \/ layout.dataTransforms # Nothing
       /\ DataTransformsMention(JsonLoads(layout.dataTransforms[1]), table_field)

\* DataVisual.__init__ raises when Config or DataTransforms cannot be built.
DataVisual_init_raises(layout) ==
    \/ Config_init_raises(JsonLoads(layout.config))
    \/ layout.dataTransforms # Nothing
       /\ DataTransforms_init_raises(JsonLoads(layout.dataTransforms[1]))

\* table_old, field_old = old.split(".") raises ValueError unless the split
\* gives exactly two texts.
SplitRaises(qualifier) == Len(SplitDot(qualifier)) # 2

\* An exception inside the "if self.find_field(old)" block.
DataVisual_rewrite_raises(layout, old, field_old) ==
    \/ SemanticQuery_raises(JsonLoads(layout.config).prototypeQuery)
    \/ layout.dataTransforms # Nothing
       /\ DataTransforms_raises(JsonLoads(layout.dataTransforms[1]), old)
    \/ layout.query # Nothing /\ Query_raises(JsonLoads(layout.query[1]))
    \/ Filters_raises(JsonLoads(layout.filters), field_old)

\* self.layout[option] = json.dumps(value), for every option whose value
\* is truthy (a missing sub-document is None, an empty filters list is []).
ReEncode(layout, config, filters, query, data_transforms) ==
    [config         |-> JsonDumps(config),
     filters        |-> IF filters # <<>> THEN JsonDumps(filters) ELSE layout.filters,
     query          |-> IF query # Nothing THEN Some(JsonDumps(query[1])) ELSE layout.query,
     dataTransforms |-> IF data_transforms # Nothing
                        THEN Some(JsonDumps(data_transforms[1]))
                        ELSE layout.dataTransforms]

\* DataVisual(layout).update_fields(old, new): the layout, self.updated
\* and whether an exception left the call.
DataVisual_update_fields(layout, old, new) ==
    IF DataVisual_init_raises(layout) \/ SplitRaises(old) \/ SplitRaises(new)
    THEN [layout |-> layout, updated |-> 0, raised |-> TRUE]
    ELSE
    LET table_old == SplitDot(old)[1]
        field_old == SplitDot(old)[2]
        table_new == SplitDot(new)[1]
        field_new == SplitDot(new)[2]
        config == Config_update_fields(
                      JsonLoads(layout.config), old, new,
                      table_old, table_new, field_old, field_new)
        data_transforms ==
            IF layout.dataTransforms # Nothing
            THEN Some(DataTransforms_update_fields(
                          JsonLoads(layout.dataTransforms[1]), old, new,
                          table_old, table_new, field_old, field_new))
            ELSE Nothing
        query ==
            IF layout.query # Nothing
            THEN Some(Query_update_fields(
                          JsonLoads(layout.query[1]), old, new,
                          table_old, table_new, field_old, field_new))
            ELSE Nothing
        filters == Filters_update_fields(
                       JsonLoads(layout.filters), old, new,
                       table_old, table_new, field_old, field_new)
    IN  IF ~DataVisual_find_field(layout, old)
        THEN [layout |-> layout, updated |-> 0, raised |-> FALSE]
        ELSE IF DataVisual_rewrite_raises(layout, old, field_old)
        THEN [layout |-> layout, updated |-> 0, raised |-> TRUE]
        ELSE [layout  |-> ReEncode(layout, config, filters, query, data_transforms),
              updated |-> 1, raised |-> FALSE]

\* ------------------------------------------------------------------------
\* DataVisual.update_fields statement by statement.  A step is the record
\* [doc, at, step]: the sub-document it works on, the position of the
\* semantic query inside it (0 when the step works on the sub-document
\* itself) and the statement.  The working documents are the parsed
\* sub-documents [config, dataTransforms, query, filters].
\* ------------------------------------------------------------------------
\* A variant of SemanticQuery.update_fields that overwrites Select.Name
\* before the steps selected by it.
Mutant_select_table_fields_first ==
    <<"prune_from_tables", "table_alias_new", "update_select_table_fields",
      "update_select_table_aliases", "update_select_fields",
      "update_orderby_table_aliases", "update_orderby_fields",
      "update_where_settings">>

\* The statements of SemanticQuery.update_fields, in their order.
SemanticQuery_steps ==
    <<"prune_from_tables", "table_alias_new", "update_select_table_aliases",
      "update_select_fields", "update_orderby_table_aliases",
      "update_orderby_fields", "update_where_settings",
      "update_select_table_fields">>

\* The statements of Config.update_fields after the prototype query's.
Config_steps ==
    <<"prune_column_properties", "update_object_datapoints",
      "update_singlevisual_table_fields", "update_projections_table_fields">>

\* The statements of DataTransforms.update_fields.
DataTransforms_steps ==
    <<"update_objects_metadata", "update_object_datapoints",
      "update_selects_tables", "update_selects_fields",
      "update_selects_display_names", "update_filters_metadata_tables",
      "update_filters_metadata_fields", "update_selects_table_fields",
      "update_query_metadata_table_fields">>

\* The statements of Filters.update_fields after the filter sub-queries'.
Filters_steps == <<"update_tables", "update_fields">>

StepsOn(doc, at, steps) == [i \in DOMAIN steps |-> [doc |-> doc, at |-> at, step |-> steps[i]]]

RECURSIVE Flatten(_)
Flatten(seqs) == IF seqs = <<>> THEN <<>> ELSE Head(seqs) \o Flatten(Tail(seqs))

\* The filters whose sub-query _update_semantic_queries finds.
FilterQueryNodes(filters, field_old) ==
    LET Found(i) == filters[i].Property = field_old /\ filters[i].filter # Nothing
    IN  SelectSeq([i \in 1..Len(filters) |-> i], Found)

\* The statements one call of DataVisual.update_fields runs once find_field
\* has answered true: Config, DataTransforms, Query, Filters.
DataVisual_program(layout, old) ==
    LET field_old == SplitDot(old)[2]
        commands == IF layout.query = Nothing THEN <<>>
                    ELSE JsonLoads(layout.query[1]).Commands
        nodes == FilterQueryNodes(JsonLoads(layout.filters), field_old)
    IN  StepsOn("config", 0, SemanticQuery_steps \o Config_steps)
        \o (IF layout.dataTransforms = Nothing THEN <<>>
            ELSE StepsOn("dataTransforms", 0, DataTransforms_steps))
        \o Flatten([i \in DOMAIN commands |-> StepsOn("query", i, SemanticQuery_steps)])
        \o Flatten([k \in DOMAIN nodes |-> StepsOn("filters", nodes[k], SemanticQuery_steps)])
        \o StepsOn("filters", 0, Filters_steps)

\* One statement of SemanticQuery.update_fields on the query q;
\* table_alias_new is the local variable of the method.
SemanticQuery_step(q, table_alias_new, step, old, new) ==
    LET table_old == SplitDot(old)[1]
        field_old == SplitDot(old)[2]
        table_new == SplitDot(new)[1]
        field_new == SplitDot(new)[2]
        found == SemanticQuery_return_from_table_alias(q.From, table_new)
        generated == SemanticQuery_generate_table_aliases(q.From, table_new)
    IN  CASE step = "prune_from_tables" ->
                [q |-> SemanticQuery_prune_from_tables(q, old, table_old),
                 alias |-> table_alias_new]
          [] step = "table_alias_new" ->
                IF found = NoAlias \/ found = <<>>
                THEN [q |-> [q EXCEPT !.From =
                                SemanticQuery_add_from_table(@, table_new, generated)],
                      alias |-> generated]
                ELSE [q |-> q, alias |-> found]
          [] step = "update_select_table_aliases" ->
                [q |-> [q EXCEPT !.Select =
                          SemanticQuery_update_select_table_aliases(@, old, table_alias_new)],
                 alias |-> table_alias_new]
          [] step = "update_select_fields" ->
                [q |-> [q EXCEPT !.Select =
                          SemanticQuery_update_select_fields(@, old, field_new)],
                 alias |-> table_alias_new]
          [] step = "update_orderby_table_aliases" ->
                [q |-> [q EXCEPT !.OrderBy =
                          SemanticQuery_update_orderby_table_aliases(@, field_old, table_alias_new)],
                 alias |-> table_alias_new]
          [] step = "update_orderby_fields" ->
                [q |-> [q EXCEPT !.OrderBy =
                          SemanticQuery_update_orderby_fields(@, field_old, field_new)],
                 alias |-> table_alias_new]
          [] step = "update_where_settings" ->
                [q |-> IF q.Where # <<>>
                       THEN [q EXCEPT !.Where =
                               SemanticQuery_update_where_settings(
                                   @, field_old, field_new, table_alias_new)]
                       ELSE q,
                 alias |-> table_alias_new]
          [] step = "update_select_table_fields" ->
                [q |-> [q EXCEPT !.Select =
                          SemanticQuery_update_select_table_fields(@, old, new)],
                 alias |-> table_alias_new]

\* The semantic query a step works on.
QueryOfStep(docs, label) ==
    CASE label.doc = "config"  -> docs.config.prototypeQuery
      [] label.doc = "query"   -> docs.query[1].Commands[label.at]
      [] label.doc = "filters" -> docs.filters[label.at].filter[1]

WithQueryOfStep(docs, label, q) ==
    CASE label.doc = "config"  -> [docs EXCEPT !.config.prototypeQuery = q]
      [] label.doc = "query"   -> [docs EXCEPT !.query[1].Commands[label.at] = q]
      [] label.doc = "filters" -> [docs EXCEPT !.filters[label.at].filter = Some(q)]

\* One statement of Config.update_fields after the prototype query's.
Config_step(config, step, old, new) ==
    LET table_old == SplitDot(old)[1]
        field_old == SplitDot(old)[2]
        table_new == SplitDot(new)[1]
        field_new == SplitDot(new)[2]
    IN  CASE step = "prune_column_properties" ->
                [config EXCEPT !.columnProperties =
                    Config_prune_column_properties(@, old, new)]
          [] step = "update_object_datapoints" ->
                [config EXCEPT !.objects =
                    WithDatapoint(@, Config_update_object_datapoints(
                        DatapointOf(@), table_old, table_new, field_old, field_new))]
          [] step = "update_singlevisual_table_fields" ->
                [config EXCEPT !.objects =
                    Config_update_singlevisual_table_fields(@, old, new)]
          [] step = "update_projections_table_fields" ->
                [config EXCEPT !.projections =
                    Config_update_projections_table_fields(@, old, new)]

\* One statement of DataTransforms.update_fields.
DataTransforms_step(data_transforms, step, old, new) ==
    LET table_old == SplitDot(old)[1]
        field_old == SplitDot(old)[2]
        table_new == SplitDot(new)[1]
        field_new == SplitDot(new)[2]
    IN  CASE step = "update_objects_metadata" ->
                [data_transforms EXCEPT !.objects =
                    Config_update_singlevisual_table_fields(@, old, new)]
          [] step = "update_object_datapoints" ->
                [data_transforms EXCEPT !.objects =
                    WithDatapoint(@, Config_update_object_datapoints(
                        DatapointOf(@), table_old, table_new, field_old, field_new))]
          [] step = "update_selects_tables" ->
                [data_transforms EXCEPT !.selects =
                    DataTransforms_update_selects_tables(@, old, table_new)]
          [] step = "update_selects_fields" ->
                [data_transforms EXCEPT !.selects =
                    DataTransforms_update_selects_fields(@, old, field_new)]
          [] step = "update_selects_display_names" ->
                [data_transforms EXCEPT !.selects =
                    DataTransforms_update_selects_display_names(@, old, field_old, field_new)]
          [] step = "update_filters_metadata_tables" ->
                [data_transforms EXCEPT !.queryMetadata.Filters =
                    DataTransforms_update_filters_metadata_tables(@, field_old, table_new)]
          [] step = "update_filters_metadata_fields" ->
                [data_transforms EXCEPT !.queryMetadata.Filters =
                    DataTransforms_update_filters_metadata_fields(@, field_old, field_new)]
          [] step = "update_selects_table_fields" ->
                [data_transforms EXCEPT !.selects =
                    DataTransforms_update_selects_table_fields(@, old, new)]
          [] step = "update_query_metadata_table_fields" ->
                [data_transforms EXCEPT !.queryMetadata.Select =
                    DataTransforms_update_query_metadata_table_fields(@, old, new)]

\* One statement of Filters.update_fields after the filter sub-queries'.
Filters_step(filters, step, old, new) ==
    IF step = "update_tables"
    THEN Filters_update_tables(filters, SplitDot(old)[2], SplitDot(new)[1])
    ELSE Filters_update_fields_step(filters, SplitDot(old)[2], SplitDot(new)[2])

IsQueryStep(label) == \E i \in DOMAIN SemanticQuery_steps : SemanticQuery_steps[i] = label.step

\* The statement raises: update_where_settings on a condition without a
\* Property, _update_selects_display_names when its path finds nothing.
DataVisual_step_raises(docs, label, old) ==
    \/ /\ label.step = "update_where_settings"
       /\ QueryOfStep(docs, label).Where # <<>>
       /\ SemanticQuery_raises(QueryOfStep(docs, label))
    \/ /\ label.doc = "dataTransforms"
       /\ label.step = "update_selects_display_names"
       /\ DataTransforms_display_names_raises(docs.dataTransforms[1].selects, old)

\* The working documents and table_alias_new after the statement.
DataVisual_step(docs, table_alias_new, label, old, new) ==
    IF IsQueryStep(label)
    THEN LET r == SemanticQuery_step(QueryOfStep(docs, label), table_alias_new,
                                     label.step, old, new)
         IN  [docs |-> WithQueryOfStep(docs, label, r.q), alias |-> r.alias]
    ELSE [docs |->
            CASE label.doc = "config" ->
                    [docs EXCEPT !.config = Config_step(@, label.step, old, new)]
              [] label.doc = "dataTransforms" ->
                    [docs EXCEPT !.dataTransforms =
                        Some(DataTransforms_step(@[1], label.step, old, new))]
              [] label.doc = "filters" ->
                    [docs EXCEPT !.filters = Filters_step(@, label.step, old, new)],
          alias |-> table_alias_new]

\* json.loads of every sub-document of the layout (DataVisual.__init__).
DataVisual_documents(layout) ==
    [config         |-> JsonLoads(layout.config),
     dataTransforms |-> IF layout.dataTransforms = Nothing THEN Nothing
                        ELSE Some(JsonLoads(layout.dataTransforms[1])),
     query          |-> IF layout.query = Nothing THEN Nothing
                        ELSE Some(JsonLoads(layout.query[1])),
     filters        |-> JsonLoads(layout.filters)]

\* ------------------------------------------------------------------------
\* report.py: the classes Report uses.  GenericVisualQuery, VisualQuery and
\* VisualFilters are statement for statement the SemanticQuery, Query and
\* Filters of visual.py; VisualConfig and VisualDataTransforms lack the
\* dataPoint and displayName steps and need no objects key.
\* ------------------------------------------------------------------------
GenericVisualQuery_update_fields(q, table_field_old, table_field_new, table_old, table_new, field_old, field_new) ==
    SemanticQuery_update_fields(q, table_field_old, table_field_new,
                                table_old, table_new, field_old, field_new)

VisualConfig_update_fields(config, table_field_old, table_field_new, table_old, table_new, field_old, field_new) ==
    LET pq == GenericVisualQuery_update_fields(
                  config.prototypeQuery, table_field_old, table_field_new,
                  table_old, table_new, field_old, field_new)
        cp == Config_prune_column_properties(
                  config.columnProperties, table_field_old, table_field_new)
        ob == Config_update_singlevisual_table_fields(
                  config.objects, table_field_old, table_field_new)
        pr == Config_update_projections_table_fields(
                  config.projections, table_field_old, table_field_new)
    IN  [config EXCEPT !.prototypeQuery = pq, !.columnProperties = cp,
                       !.objects = ob, !.projections = pr]

VisualDataTransforms_update_fields(data_transforms, table_field_old, table_field_new, table_new, field_old, field_new) ==
    LET ob == Config_update_singlevisual_table_fields(
                  data_transforms.objects, table_field_old, table_field_new)
        s1 == DataTransforms_update_selects_tables(
                  data_transforms.selects, table_field_old, table_new)
        s2 == DataTransforms_update_selects_fields(s1, table_field_old, field_new)
        f1 == DataTransforms_update_filters_metadata_tables(
                  data_transforms.queryMetadata.Filters, field_old, table_new)
        f2 == DataTransforms_update_filters_metadata_fields(f1, field_old, field_new)
        s3 == DataTransforms_update_selects_table_fields(
                  s2, table_field_old, table_field_new)
        m  == DataTransforms_update_query_metadata_table_fields(
                  data_transforms.queryMetadata.Select, table_field_old, table_field_new)
    IN  [selects |-> s3, queryMetadata |-> [Select |-> m, Filters |-> f2],
         objects |-> ob]

VisualQuery_update_fields(visual_query, table_field_old, table_field_new, table_old, table_new, field_old, field_new) ==
    [visual_query EXCEPT !.Commands =
        [i \in DOMAIN @ |->
            GenericVisualQuery_update_fields(
                @[i], table_field_old, table_field_new,
                table_old, table_new, field_old, field_new)]]

VisualFilters_update_fields(filters, table_field_old, table_field_new, table_old, table_new, field_old, field_new) ==
    Filters_update_fields(filters, table_field_old, table_field_new,
                          table_old, table_new, field_old, field_new)

\* An exception inside the "if self.find_field(old)" block of report.py.
Report_DataVisual_rewrite_raises(layout, field_old) ==
    \/ SemanticQuery_raises(JsonLoads(layout.config).prototypeQuery)
    \/ layout.query # Nothing /\ Query_raises(JsonLoads(layout.query[1]))
    \/ Filters_raises(JsonLoads(layout.filters), field_old)

\* DataVisual(visual).update_fields(old, new) of report.py.
Report_DataVisual_update_fields(layout, old, new) ==
    IF SplitRaises(old) \/ SplitRaises(new)
    THEN [layout |-> layout, updated |-> 0, raised |-> TRUE]
    ELSE
    LET old_table   == SplitDot(old)[1]
        old_measure == SplitDot(old)[2]
        new_table   == SplitDot(new)[1]
        new_measure == SplitDot(new)[2]
        config == VisualConfig_update_fields(
                      JsonLoads(layout.config), old, new,
                      old_table, new_table, old_measure, new_measure)
        data_transforms ==
            IF layout.dataTransforms # Nothing
            THEN Some(VisualDataTransforms_update_fields(
                          JsonLoads(layout.dataTransforms[1]), old, new,
                          new_table, old_measure, new_measure))
            ELSE Nothing
        query ==
            IF layout.query # Nothing
            THEN Some(VisualQuery_update_fields(
                          JsonLoads(layout.query[1]), old, new,
                          old_table, new_table, old_measure, new_measure))
            ELSE Nothing
        filters == VisualFilters_update_fields(
                       JsonLoads(layout.filters), old, new,
                       old_table, new_table, old_measure, new_measure)
    IN  IF ~DataVisual_find_field(layout, old)
        THEN [layout |-> layout, updated |-> 0, raised |-> FALSE]
        ELSE IF Report_DataVisual_rewrite_raises(layout, old_measure)
        THEN [layout |-> layout, updated |-> 0, raised |-> TRUE]
        ELSE [layout  |-> ReEncode(layout, config, filters, query, data_transforms),
              updated |-> 1, raised |-> FALSE]

\* GenericVisual.__init__: self.type and self.is_data_visual.
GenericVisual_return_visual_type(layout) == JsonLoads(layout.config).visualType

NonDataVisuals ==
    {Some(Text("image")), Some(Text("textbox")), Some(Text("shape")),
     Some(Text("actionButton")), Nothing}

\* A variant that takes a textbox for a data visual.
Mutant_textbox_is_data_visual(layout) ==
    GenericVisual_return_visual_type(layout) \notin (NonDataVisuals \ {Some(Text("textbox"))})

GenericVisual_is_data_visual(layout) ==
    GenericVisual_return_visual_type(layout) \notin NonDataVisuals

\* ------------------------------------------------------------------------
\* Report (report.py).  The layout tree is the sequence of its pages
\* (sections), a page the sequence of its visuals (visualContainers).
\* ------------------------------------------------------------------------
\* The positions (i, j) of _generic_visuals_generator, in its order.
RECURSIVE VisualPositions(_, _)
VisualPositions(layout, i) ==
    IF i > Len(layout) THEN <<>>
    ELSE [j \in 1..Len(layout[i]) |-> <<i, j>>] \o VisualPositions(layout, i + 1)

\* The loop of Report.update_fields over the remaining positions: st is
\* [layout, updated, raised]; an exception leaves the loop at once.
RECURSIVE UpdateFieldsLoop(_, _, _, _)
UpdateFieldsLoop(st, positions, old, new) ==
    IF positions = <<>> \/ st.raised THEN st
    ELSE LET i == Head(positions)[1]
             j == Head(positions)[2]
             visual == st.layout[i][j]
         IN  IF GenericVisual_is_data_visual(visual)
             THEN LET r == Report_DataVisual_update_fields(visual, old, new)
                  IN  UpdateFieldsLoop(
                          IF r.raised
                          THEN [st EXCEPT !.raised = TRUE]
                          ELSE [layout  |-> [st.layout EXCEPT ![i][j] = r.layout],
                                updated |-> st.updated + r.updated,
                                raised  |-> FALSE],
                          Tail(positions), old, new)
             ELSE UpdateFieldsLoop(st, Tail(positions), old, new)

\* Report.update_fields on self.layout and self.updated.
Report_update_fields(layout, updated, old, new) ==
    UpdateFieldsLoop([layout |-> layout, updated |-> updated, raised |-> FALSE],
                     VisualPositions(layout, 1), old, new)

\* ------------------------------------------------------------------------
\* The container and the file system.  A path is [dir, base, ext]; a file is
\* [members, closed]: the members written so far, each [name, data], and
\* whether the archive was closed.  The bytes of a member are [bom, units]:
\* whether they start with a byte order mark, and the UTF-16 text they
\* carry.  The file system maps a path to an optional file.
\* ------------------------------------------------------------------------
\* bytes.decode("utf-16"): a byte order mark, if any, is consumed.
DecodeUtf16(bytes) == bytes.units

\* str.encode("utf-16-le"): no byte order mark is written.
EncodeUtf16le(text) == [bom |-> FALSE, units |-> text]

\* zip_file.read(name): the data of the member called name.
ZipRead(file, name) ==
    file.members[SetMax({i \in DOMAIN file.members : file.members[i].name = name})].data

\* original_zip.namelist()
ZipNamelist(file) == [i \in DOMAIN file.members |-> file.members[i].name]

\* Report._read_layout
Report_read_layout(file) == JsonLoads(DecodeUtf16(ZipRead(file, "Report/Layout")))

\* base, ext = os.path.splitext(self.filename)
\* temp_filepath = os.path.join(f"{base} Temp{ext}"): a path relative to
\* the working directory.
Report_temp_filepath(filepath) ==
    [dir |-> ".", base |-> filepath.base \o " Temp", ext |-> filepath.ext]

\* A variant of the loop body that copies SecurityBindings as well.
Mutant_copy_every_member(new_zip, original_zip, file, layout) ==
    IF file = "Report/Layout"
    THEN [new_zip EXCEPT !.members =
             Append(@, [name |-> file, data |-> EncodeUtf16le(JsonDumps(layout))])]
    ELSE [new_zip EXCEPT !.members =
             Append(@, [name |-> file, data |-> ZipRead(original_zip, file)])]

\* The body of the loop of write_file for the member called file: what
\* new_zip holds after it.
Report_write_member(new_zip, original_zip, file, layout) ==
    IF file = "Report/Layout"
    THEN [new_zip EXCEPT !.members =
             Append(@, [name |-> file, data |-> EncodeUtf16le(JsonDumps(layout))])]
    ELSE IF file # "SecurityBindings"
    THEN [new_zip EXCEPT !.members =
             Append(@, [name |-> file, data |-> ZipRead(original_zip, file)])]
    ELSE new_zip

\* ------------------------------------------------------------------------
\* Slicers.  singleVisual.objects of a slicer may hold data and general,
\* each a sequence of entries [properties]; a properties object is a
\* function from its keys to their values.
\* ------------------------------------------------------------------------
\* VisualConfig.__init__ of report.py: an object of the class, which
\* DataVisual.__init__ stores in self.config in place of the decoded
\* document.
VisualConfig_init(config) == [class |-> "VisualConfig", config |-> config]

\* parse("$.singleVisual.objects.data[*].properties.isInvertedSelectionMode
\*        .`parent`").find(value): the entries of objects.data whose
\* properties hold the key, by index.  jsonpath finds fields in a mapping;
\* in an object of a class it finds none.
SlicerPathFind(value) ==
    IF "class" \in DOMAIN value THEN <<>>
    ELSE IF value.objects = Nothing THEN <<>>
    ELSE IF "data" \notin DOMAIN value.objects[1] THEN <<>>
    ELSE LET data == value.objects[1].data
             Found(i) == "isInvertedSelectionMode" \in DOMAIN data[i].properties
         IN  SelectSeq([i \in 1..Len(data) |-> i], Found)

\* parse("$.singleVisual.objects.general[*].properties.filter").find(value)
SelectionPathFind(value) ==
    IF "class" \in DOMAIN value THEN <<>>
    ELSE IF value.objects = Nothing THEN <<>>
    ELSE IF "general" \notin DOMAIN value.objects[1] THEN <<>>
    ELSE LET general == value.objects[1].general
             Found(i) == "filter" \in DOMAIN general[i].properties
         IN  SelectSeq([i \in 1..Len(general) |-> i], Found)

\* slicer[0].value.pop("isInvertedSelectionMode")
PropertiesPop(properties, key) == [k \in DOMAIN properties \ {key} |-> properties[k]]

\* Slicer(layout).unselect_all_items() of visual.py: the paths are
\* searched in self.config.config, the decoded document.
Slicer_unselect_all_items(layout) ==
    IF DataVisual_init_raises(layout)
    THEN [layout |-> layout, updated |-> 0, raised |-> TRUE]
    ELSE
    LET config    == JsonLoads(layout.config)
        slicer    == SlicerPathFind(config)
        selection == SelectionPathFind(config)
    IN  IF slicer # <<>> /\ selection = <<>>
        THEN [layout  |-> [layout EXCEPT !.config =
                             JsonDumps([config EXCEPT
                                 !.objects[1].data[slicer[1]].properties =
                                     PropertiesPop(@, "isInvertedSelectionMode")])],
              updated |-> 1, raised |-> FALSE]
        ELSE [layout |-> layout, updated |-> 0, raised |-> FALSE]

\* Slicer(visual).unselect_all_items() of report.py: the paths are searched
\* in self.config, which DataVisual.__init__ has replaced by the
\* VisualConfig object; json.dumps of that object raises TypeError.
Report_Slicer_unselect_all_items(layout) ==
    LET config == VisualConfig_init(JsonLoads(layout.config))
        slicer == SlicerPathFind(config)
    IN  IF slicer # <<>> /\ SelectionPathFind(config) = <<>>
        THEN [layout |-> layout, updated |-> 0, raised |-> TRUE]
        ELSE [layout |-> layout, updated |-> 0, raised |-> FALSE]

\* The loop of Report.update_slicers over the remaining positions: st is
\* [layout, updated, raised]; an exception leaves the loop at once.
RECURSIVE UpdateSlicersLoop(_, _)
UpdateSlicersLoop(st, positions) ==
    IF positions = <<>> \/ st.raised THEN st
    ELSE LET i == Head(positions)[1]
             j == Head(positions)[2]
         IN  IF GenericVisual_return_visual_type(st.layout[i][j]) = Some(Text("slicer"))
             THEN LET r == Report_Slicer_unselect_all_items(st.layout[i][j])
                  IN  UpdateSlicersLoop(
                          IF r.raised
                          THEN [st EXCEPT !.raised = TRUE]
                          ELSE [layout  |-> [st.layout EXCEPT ![i][j] = r.layout],
                                updated |-> st.updated + r.updated,
                                raised  |-> FALSE],
                          Tail(positions))
             ELSE UpdateSlicersLoop(st, Tail(positions))

\* Report.update_slicers on self.layout and self.updated.
Report_update_slicers(layout, updated) ==
    UpdateSlicersLoop([layout |-> layout, updated |-> updated, raised |-> FALSE],
                      VisualPositions(layout, 1))

\* ------------------------------------------------------------------------
\* The inputs of the model: field references, queries and renamings.
\* ------------------------------------------------------------------------
Ref(t, f) == [table |-> Text(t), field |-> Text(f)]

RefName(r) == Qualified(r.table, r.field)

\* Two fields of one table, a field of a second table, and a field of a
\* third table that carries the name of a field of the first.
RefPool ==
    {Ref("Sales", "Qty"), Ref("Sales", "Region"),
     Ref("Orders", "Count"), Ref("Customers", "Qty")}

TableOrder == <<Text("Sales"), Text("Orders"), Text("Customers")>>

\* The (old, new) arguments of update_fields: to another table, back, to
\* another field of the same table, to itself, to a table whose alias
\* collides with the old table's, and from the third table.
Call(old, new) == [old |-> RefName(old), new |-> RefName(new)]

CallPool ==
    {Call(Ref("Sales", "Qty"), Ref("Orders", "Count")),
     Call(Ref("Orders", "Count"), Ref("Sales", "Qty")),
     Call(Ref("Sales", "Qty"), Ref("Sales", "Region")),
     Call(Ref("Sales", "Qty"), Ref("Sales", "Qty")),
     Call(Ref("Sales", "Qty"), Ref("Stores", "Qty")),
     Call(Ref("Customers", "Qty"), Ref("Orders", "Count"))}

\* The calls made on a report: a renaming, its reverse, a renaming inside
\* one table, and calls whose old or new qualifier has no dot.
ReportCallPool ==
    {Call(Ref("Sales", "Qty"), Ref("Orders", "Count")),
     Call(Ref("Orders", "Count"), Ref("Sales", "Qty")),
     Call(Ref("Sales", "Qty"), Ref("Sales", "Region")),
     [old |-> Text("SalesQty"), new |-> RefName(Ref("Orders", "Count"))],
     [old |-> RefName(Ref("Sales", "Qty")), new |-> Text("OrdersCount")]}

\* The sequences without repetition of at most n elements of S.
InjSeqs(S, n) ==
    {s \in UNION {[1..k -> S] : k \in 0..n} :
        \A i, j \in DOMAIN s : i # j => s[i] # s[j]}

\* A reference as it stands in a query: by the alias of its table.
QueryRef(r) == [Source |-> FirstCharLower(r.table), Property |-> r.field]

\* The query Power BI writes for the given Select, Where and OrderBy
\* references: From holds exactly the tables Select and Where use.
BuildQuery(sel, wh, ob) ==
    LET used == {sel[i].table : i \in DOMAIN sel}
                \cup UNION {{wh[i][k].table : k \in DOMAIN wh[i]} : i \in DOMAIN wh}
        InUse(t) == t \in used
        tables == SelectSeq(TableOrder, InUse)
    IN  [From    |-> [i \in DOMAIN tables |->
                        [Name |-> FirstCharLower(tables[i]),
                         Entity |-> tables[i], Type |-> 0]],
         Select  |-> [i \in DOMAIN sel |->
                        [Name |-> RefName(sel[i]),
                         Source |-> FirstCharLower(sel[i].table),
                         Property |-> sel[i].field]],
         Where   |-> [i \in DOMAIN wh |->
                        [k \in DOMAIN wh[i] |-> QueryRef(wh[i][k])]],
         OrderBy |-> [i \in DOMAIN ob |-> QueryRef(ob[i])]]

\* No Where, or one condition with one or two references.
WherePool == {<<>>} \cup {<<c>> : c \in InjSeqs(RefPool, 2) \ {<<>>}}

OrderByPool == {<<>>} \cup {<<r>> : r \in RefPool}

QueryPool ==
    {BuildQuery(sel, wh, ob) :
        <<sel, wh, ob>> \in
            {x \in InjSeqs(RefPool, MaxSelect) \X WherePool \X OrderByPool :
                /\ x[1] # <<>> \/ x[2] # <<>>
                /\ \A i \in DOMAIN x[3] :
                      \/ \E j \in DOMAIN x[1] : x[1][j].table = x[3][i].table
                      \/ \E j \in DOMAIN x[2] : \E k \in DOMAIN x[2][j] :
                            x[2][j][k].table = x[3][i].table}}

\* The shape of a generated visual: whether it has a query, what its
\* dataTransforms selects carry as displayName ("none": no dataTransforms,
\* "field": the field name, "custom": a name the user chose, "qualified": the
\* user chose the text Table.Field, "absent": no displayName key, "mixed":
\* the field name on the first entry and a chosen name on the others), whether
\* singleVisual.objects exists and has a dataPoint, and whether
\* columnProperties has an entry per Select.
Style(q, d, o, c) == [hasQuery |-> q, display |-> d, objects |-> o, columns |-> c]

StylePool ==
    {Style(TRUE,  "field",     "dataPoint", TRUE),
     Style(FALSE, "none",      "empty",     FALSE),
     Style(TRUE,  "custom",    "empty",     TRUE),
     Style(FALSE, "qualified", "dataPoint", FALSE),
     Style(FALSE, "absent",    "empty",     FALSE),
     Style(TRUE,  "field",     "none",      FALSE),
     Style(FALSE, "mixed",     "empty",     FALSE)}

\* The filters of a generated visual: none, or one filter on a field, with
\* or without its filter sub-query.
FilterOn(r, s) == [ref |-> r, sub |-> s]

FilterPool ==
    {<<>>} \cup {<<FilterOn(r, TRUE)>> : r \in RefPool}
           \cup {<<FilterOn(Ref("Sales", "Qty"), FALSE)>>}

DisplayNameOf(r, display) ==
    CASE display = "field"     -> Some(r.field)
      [] display = "custom"    -> Some(Text("Units"))
      [] display = "qualified" -> Some(RefName(r))
      [] OTHER                 -> Nothing

ObjectsOf(refs, objects) ==
    CASE objects = "none"  -> Nothing
      [] objects = "empty" -> Some([dataPoint |-> Nothing, metadata |-> <<>>])
      [] OTHER ->
            Some([dataPoint |-> Some([i \in DOMAIN refs |->
                                        [Property |-> refs[i].field,
                                         Entity |-> refs[i].table]]),
                  metadata  |-> [i \in DOMAIN refs |-> RefName(refs[i])]])

\* The layout of the visual Power BI writes for the given references.
BuildVisual(type, sel, wh, ob, flt, style) ==
    LET refs == sel \o [i \in DOMAIN flt |-> flt[i].ref]
        config ==
            [visualType       |-> type,
             prototypeQuery   |-> BuildQuery(sel, wh, ob),
             columnProperties |->
                 IF style.columns
                 THEN [n \in {RefName(sel[i]) : i \in DOMAIN sel} |-> <<"width of">> \o n]
                 ELSE <<>>,
             projections      |-> [i \in DOMAIN sel |-> RefName(sel[i])],
             objects          |-> ObjectsOf(refs, style.objects)]
        filters ==
            [i \in DOMAIN flt |->
                [Entity   |-> flt[i].ref.table,
                 Property |-> flt[i].ref.field,
                 filter   |-> IF flt[i].sub
                              THEN Some(BuildQuery(<<>>, << <<flt[i].ref>> >>, <<>>))
                              ELSE Nothing]]
        data_transforms ==
            [selects |-> [i \in DOMAIN sel |->
                            [queryName   |-> RefName(sel[i]),
                             displayName |->
                                 DisplayNameOf(sel[i],
                                     IF style.display # "mixed" THEN style.display
                                     ELSE IF i = 1 THEN "field" ELSE "custom"),
                             Entity      |-> sel[i].table,
                             Property    |-> sel[i].field]],
             queryMetadata |->
                 [Select  |-> [i \in DOMAIN sel |-> [Name |-> RefName(sel[i])]],
                  Filters |-> [i \in DOMAIN flt |->
                                 [Entity   |-> flt[i].ref.table,
                                  Property |-> flt[i].ref.field]]],
             objects |-> ObjectsOf(refs, style.objects)]
    IN  [config  |-> JsonText(config, "pbi"),
         filters |-> JsonText(filters, "pbi"),
         query   |-> IF style.hasQuery
                     THEN Some(JsonText([Commands |-> <<BuildQuery(sel, wh, ob)>>], "pbi"))
                     ELSE Nothing,
         dataTransforms |->
                     IF style.display # "none"
                     THEN Some(JsonText(data_transforms, "pbi"))
                     ELSE Nothing]

\* A Where with one condition that holds no Property (a condition on a
\* hierarchy level).
WhereWithoutProperty == << <<>> >>

\* The Where and OrderBy of the generated visuals.
VisualWherePool ==
    {<<>>, << <<Ref("Sales", "Region")>> >>,
     << <<Ref("Sales", "Qty"), Ref("Customers", "Qty")>> >>,
     WhereWithoutProperty}

VisualOrderByPool == {<<>>, <<Ref("Sales", "Qty")>>, <<Ref("Customers", "Qty")>>}

OrderByInFrom(sel, wh, ob) ==
    \A i \in DOMAIN ob :
        \/ \E j \in DOMAIN sel : sel[j].table = ob[i].table
        \/ \E j \in DOMAIN wh : \E k \in DOMAIN wh[j] : wh[j][k].table = ob[i].table

FullStyle == Style(TRUE, "field", "dataPoint", TRUE)

\* The data visuals of the model: every query shape in a visual with all its
\* sub-documents, and every filter and shape with a plain query.
DataVisualPool(type) ==
    {BuildVisual(type, x[1], x[2], x[3], <<>>, FullStyle) :
        x \in {y \in (InjSeqs(RefPool, MaxSelect) \ {<<>>})
                      \X VisualWherePool \X VisualOrderByPool :
                  OrderByInFrom(y[1], y[2], y[3])}}
    \cup
    {BuildVisual(type, x[1], <<>>, <<>>, x[2], x[3]) :
        x \in (InjSeqs(RefPool, MaxSelect) \ {<<>>}) \X FilterPool \X StylePool}

ChartType == Some(Text("barChart"))

\* The visuals of the generated reports: a chart on Sales.Qty with all its
\* sub-documents, the same chart with a Where condition that holds no
\* Property, a chart that does not mention Sales.Qty, a chart whose
\* display name is the text Sales.Qty, a chart with a filter on the field
\* Qty of another table, and visuals of every non-data type (and of no
\* type) that carry the same documents as the first chart.
ReportVisualPool ==
    {BuildVisual(ChartType, <<Ref("Sales", "Qty")>>, <<>>, <<>>, <<>>, FullStyle),
     BuildVisual(ChartType, <<Ref("Sales", "Qty")>>, WhereWithoutProperty, <<>>, <<>>,
                 FullStyle),
     BuildVisual(ChartType, <<Ref("Sales", "Region")>>,
                 << <<Ref("Sales", "Region")>> >>, <<>>, <<>>, FullStyle),
     BuildVisual(ChartType, <<Ref("Sales", "Qty")>>, <<>>, <<>>, <<>>,
                 Style(FALSE, "qualified", "dataPoint", FALSE)),
     BuildVisual(ChartType, <<Ref("Sales", "Qty"), Ref("Orders", "Count")>>, <<>>, <<>>,
                 <<FilterOn(Ref("Customers", "Qty"), TRUE)>>,
                 Style(TRUE, "custom", "empty", TRUE))}
    \cup {BuildVisual(t, <<Ref("Sales", "Qty")>>, <<>>, <<>>, <<>>, FullStyle) :
            t \in NonDataVisuals}

\* The layouts with at most n visuals on at most two pages.
PagePool(lo, hi) == UNION {[1..k -> ReportVisualPool] : k \in lo..hi}

LayoutPool(n) ==
    {<<>>}
    \cup {<<p>> : p \in PagePool(0, n)}
    \cup {<<x[1], x[2]>> :
            x \in {y \in PagePool(1, n) \X PagePool(1, n) : Len(y[1]) + Len(y[2]) <= n}}

\* The properties of an entry of objects.data: with and without the
\* marker of the inverted selection; of an entry of objects.general: with
\* and without a selection filter.
DataProperties(inverted) ==
    IF inverted THEN [mode |-> "Basic", isInvertedSelectionMode |-> "true"]
    ELSE [mode |-> "Basic"]

GeneralProperties(filtered) ==
    IF filtered THEN [orientation |-> "vertical", filter |-> "Region is East"]
    ELSE [orientation |-> "vertical"]

\* A visual of the given type on Sales.Region whose objects hold the given
\* data entries and, if any, general entries.
BuildSlicer(type, data, general) ==
    LET v  == BuildVisual(type, <<Ref("Sales", "Region")>>, <<>>, <<>>, <<>>, FullStyle)
        c  == JsonLoads(v.config)
        ob == IF general = Nothing
              THEN [dataPoint |-> c.objects[1].dataPoint, metadata |-> c.objects[1].metadata,
                    data |-> data]
              ELSE [dataPoint |-> c.objects[1].dataPoint, metadata |-> c.objects[1].metadata,
                    data |-> data, general |-> general[1]]
    IN  [v EXCEPT !.config = JsonText([c EXCEPT !.objects = Some(ob)], "pbi")]

\* The visuals of the reports whose slicers are reset: a slicer without
\* objects.data, slicers with and without the marker, with a general entry
\* with and without a filter, with the marker in two data entries, and a
\* chart that carries the marker.
SlicerVisualPool ==
    LET SlicerType == Some(Text("slicer"))
    IN
    {BuildVisual(SlicerType, <<Ref("Sales", "Region")>>, <<>>, <<>>, <<>>, FullStyle),
     BuildSlicer(SlicerType, <<[properties |-> DataProperties(TRUE)]>>, Nothing),
     BuildSlicer(SlicerType, <<[properties |-> DataProperties(FALSE)]>>, Nothing),
     BuildSlicer(SlicerType, <<[properties |-> DataProperties(TRUE)]>>,
                 Some(<<[properties |-> GeneralProperties(TRUE)]>>)),
     BuildSlicer(SlicerType, <<[properties |-> DataProperties(TRUE)]>>,
                 Some(<<[properties |-> GeneralProperties(FALSE)]>>)),
     BuildSlicer(SlicerType, <<[properties |-> DataProperties(TRUE)],
                               [properties |-> DataProperties(TRUE)]>>, Nothing),
     BuildSlicer(ChartType, <<[properties |-> DataProperties(TRUE)]>>, Nothing)}

SlicerPagePool(lo, hi) == UNION {[1..k -> SlicerVisualPool] : k \in lo..hi}

SlicerLayoutPool(n) ==
    {<<>>}
    \cup {<<p>> : p \in SlicerPagePool(0, n)}
    \cup {<<x[1], x[2]>> :
            x \in {y \in SlicerPagePool(1, n) \X SlicerPagePool(1, n) :
                      Len(y[1]) + Len(y[2]) <= n}}

\* The bookmarks of the generated reports: the nodes of a saved state that
\* name a field, one on the field Qty of Sales and one on the field Qty of
\* Customers.
BookmarkNode(r) == [Property |-> r.field, Entity |-> r.table]

ReportBookmarks == <<BookmarkNode(Ref("Sales", "Qty")), BookmarkNode(Ref("Customers", "Qty"))>>

\* The bytes of a member other than Report/Layout, named by what they hold.
OpaqueBytes(what) == [bom |-> FALSE, units |-> JsonText(<<>>, what)]

\* The containers: the members around Report/Layout, with and without
\* SecurityBindings.
MemberNamesPool ==
    {<<"Version", "Report/Layout", "Settings">>,
     <<"Version", "SecurityBindings", "Report/Layout", "Settings">>}

BuildContainer(names, sections, bookmarks) ==
    [members |-> [i \in DOMAIN names |->
                    [name |-> names[i],
                     data |-> IF names[i] = "Report/Layout"
                              THEN [bom |-> FALSE,
                                    units |-> JsonText(
                                        [sections |-> sections,
                                         config |-> JsonText([bookmarks |-> bookmarks],
                                                             "pbi")], "pbi")]
                              ELSE OpaqueBytes(names[i])]],
     closed |-> TRUE]

ReportPath == [dir |-> "reports", base |-> "Sales", ext |-> ".pbix"]

\* ------------------------------------------------------------------------
\* State.
\* ------------------------------------------------------------------------
VARIABLES
    query,        \* a semantic query under SemanticQuery.update_fields
    queryBefore,  \* the query as it was before the last call
    queryCall,    \* the (old, new) of the last call, Nothing before any call
    aliasFrom,    \* a From list given to _generate_table_aliases
    aliasTable,   \* the table an alias is generated for
    aliasOut,     \* the alias that was generated, Nothing before
    visual,       \* the layout of a visual under DataVisual.update_fields
    visualLog,    \* per call made on it: the call, the layout before it,
                  \* self.updated after it and whether it raised
    fs,           \* the file system: path -> optional file
    original,     \* the container the Report was constructed from
    layout,       \* Report.layout["sections"]
    layoutConfig, \* Report.layout["config"], a JSON-encoded text
    updated,      \* Report.updated
    reportLog,    \* per call of Report.update_fields: the call, layout and
                  \* updated before it, and whether it raised
    pc,           \* where the program is: "loaded", inside write_file
                  \* ("open", "copy", "remove", "rename"), "done",
                  \* "raised" (update_fields raised), "write_failed"
    wpos,         \* write_file: the index in namelist() of the next member
    cwd,          \* the working directory of replace_field_in_all_reports
    disk,         \* its file system: the names (path -> optional inode) and
                  \* the inodes (the files, by number)
    diskBefore,   \* the file system before the driver started
    batches,      \* per directory still to walk, the arguments starmap has
                  \* not yet handed to a worker
    workers,      \* per worker process: where it is in replace_field
                  \* ("idle", "init", "open", "copy", "remove", "rename"),
                  \* its task and its Report
    failed        \* whether a task of the running starmap has raised

qvars == <<query, queryBefore, queryCall, aliasFrom, aliasTable, aliasOut>>

vvars == <<visual, visualLog>>

rvars == <<fs, original, layout, layoutConfig, updated, reportLog, pc, wpos>>

dvars == <<cwd, disk, diskBefore, batches, workers, failed>>

vars == <<qvars, vvars, rvars, dvars>>

\* The values of the variables a specification does not use.
IdleQuery == [From |-> <<>>, Select |-> <<>>, Where |-> <<>>, OrderBy |-> <<>>]

AIdle == aliasFrom = <<>> /\ aliasTable = <<>> /\ aliasOut = Nothing

QIdle == query = IdleQuery /\ queryBefore = IdleQuery /\ queryCall = Nothing /\ AIdle

VIdle == visual = <<>> /\ visualLog = <<>>

NoFile == [members |-> <<>>, closed |-> TRUE]

RIdle ==
    /\ fs = <<>>
    /\ original = NoFile
    /\ layout = <<>>
    /\ layoutConfig = JsonText(<<>>, "pbi")
    /\ updated = 0
    /\ reportLog = <<>>
    /\ pc = "idle"
    /\ wpos = 0

DIdle ==
    /\ cwd = ""
    /\ disk = <<>>
    /\ diskBefore = <<>>
    /\ batches = <<>>
    /\ workers = <<>>
    /\ failed = FALSE

\* ------------------------------------------------------------------------
\* SemanticQuery.update_fields applied to one query.
\* ------------------------------------------------------------------------
\* The six arguments DataVisual.update_fields derives from old and new.
TableOf(qualifier) == SplitDot(qualifier)[1]

FieldOf(qualifier) == SplitDot(qualifier)[2]

QInit ==
    /\ query \in QueryPool
    /\ queryBefore = query
    /\ queryCall = Nothing
    /\ AIdle
    /\ VIdle
    /\ RIdle
    /\ DIdle

QUpdateFields(c) ==
    /\ queryCall = Nothing
    /\ ~SemanticQuery_raises(query)
    /\ query' = SemanticQuery_update_fields(
                    query, c.old, c.new, TableOf(c.old), TableOf(c.new),
                    FieldOf(c.old), FieldOf(c.new))
    /\ queryBefore' = query
    /\ queryCall' = Some(c)
    /\ UNCHANGED <<aliasFrom, aliasTable, aliasOut, vvars, rvars, dvars>>

QNext == \E c \in CallPool : QUpdateFields(c)

SpecQuery == QInit /\ [][QNext]_vars

\* ------------------------------------------------------------------------
\* SemanticQuery._generate_table_aliases applied to one From list.
\* ------------------------------------------------------------------------
\* The aliases Power BI and the rewriter write: a letter, or a letter and a
\* number.
AliasPool ==
    {<<"s">>, <<"s", "1">>, <<"s", "2">>, <<"s", "9">>, <<"s", "1", "0">>,
     <<"o">>, <<"o", "1">>, <<"c">>}

AliasTablePool == {Text("Sales"), Text("Stores"), Text("Orders"), Text("Customers")}

\* A From list with the given aliases.
FromWithAliases(names) ==
    [i \in DOMAIN names |-> [Name |-> names[i], Entity |-> Text("Table"), Type |-> 0]]

AInit ==
    /\ aliasFrom \in {FromWithAliases(names) : names \in InjSeqs(AliasPool, MaxFrom)}
    /\ aliasTable \in AliasTablePool
    /\ aliasOut = Nothing
    /\ query = IdleQuery /\ queryBefore = IdleQuery /\ queryCall = Nothing
    /\ VIdle
    /\ RIdle
    /\ DIdle

AGenerate ==
    /\ aliasOut = Nothing
    /\ aliasOut' = Some(SemanticQuery_generate_table_aliases(aliasFrom, aliasTable))
    /\ UNCHANGED <<query, queryBefore, queryCall, aliasFrom, aliasTable, vvars, rvars, dvars>>

ANext == AGenerate

SpecAlias == AInit /\ [][ANext]_vars

\* ------------------------------------------------------------------------
\* DataVisual.update_fields applied to one visual, up to MaxCalls times.
\* ------------------------------------------------------------------------
VInit ==
    /\ visual \in DataVisualPool(ChartType)
    /\ visualLog = <<>>
    /\ QIdle
    /\ RIdle
    /\ DIdle

VUpdateFields(c) ==
    /\ Len(visualLog) < MaxCalls
    /\ LET r == DataVisual_update_fields(visual, c.old, c.new)
       IN  /\ visual' = r.layout
           /\ visualLog' = Append(visualLog,
                              [call |-> c, before |-> visual,
                               updated |-> r.updated, raised |-> r.raised])
    /\ UNCHANGED <<qvars, rvars, dvars>>

VNext == \E c \in CallPool : VUpdateFields(c)

SpecVisual == VInit /\ [][VNext]_vars

\* ------------------------------------------------------------------------
\* One call of DataVisual.update_fields (visual.py), statement by
\* statement.  visual is self.layout; visualLog holds the one running call:
\* its arguments, the layout and the parsed sub-documents at its start, the
\* working sub-documents, table_alias_new of the running
\* SemanticQuery.update_fields, the statements to run and the position in
\* them, whether an exception left the call, and self.updated.
\* ------------------------------------------------------------------------
TInit ==
    /\ visual \in DataVisualPool(ChartType)
    /\ visualLog = <<>>
    /\ QIdle
    /\ RIdle
    /\ DIdle

\* DataVisual(layout) and the head of update_fields: the two splits and
\* "if self.find_field(table_field_old)".
TBegins(c) ==
    /\ visualLog = <<>>
    /\ LET raises == DataVisual_init_raises(visual) \/ SplitRaises(c.old) \/ SplitRaises(c.new)
           docs == IF DataVisual_init_raises(visual) THEN Nothing
                   ELSE Some(DataVisual_documents(visual))
           program == IF raises THEN <<>>
                      ELSE IF DataVisual_find_field(visual, c.old)
                      THEN DataVisual_program(visual, c.old)
                      ELSE <<>>
       IN  visualLog' = <<[call |-> c, before |-> visual, start |-> docs,
                           docs |-> docs, alias |-> Nothing,
                           program |-> program, pc |-> 1,
                           raised |-> raises, updated |-> 0]>>
    /\ UNCHANGED <<visual, qvars, rvars, dvars>>

\* The next statement, when it works on the sub-document doc.
TStep(doc) ==
    /\ visualLog # <<>>
    /\ LET s == visualLog[1]
       IN  /\ ~s.raised
           /\ s.pc <= Len(s.program)
           /\ s.program[s.pc].doc = doc
           /\ IF DataVisual_step_raises(s.docs[1], s.program[s.pc], s.call.old)
              THEN visualLog' = <<[s EXCEPT !.raised = TRUE]>>
              ELSE LET r == DataVisual_step(s.docs[1], s.alias, s.program[s.pc],
                                            s.call.old, s.call.new)
                   IN  visualLog' = <<[s EXCEPT !.docs = Some(r.docs),
                                                !.alias = r.alias,
                                                !.pc = @ + 1]>>
    /\ UNCHANGED <<visual, qvars, rvars, dvars>>

TConfigStep == TStep("config")

TDataTransformsStep == TStep("dataTransforms")

TQueryStep == TStep("query")

TFiltersStep == TStep("filters")

\* for option in options: if value: self.layout[option] = json.dumps(value);
\* self.updated = 1
TEncodes ==
    /\ visualLog # <<>>
    /\ LET s == visualLog[1]
       IN  /\ ~s.raised
           /\ s.program # <<>>
           /\ s.pc = Len(s.program) + 1
           /\ s.updated = 0
           /\ visual' = ReEncode(visual, s.docs[1].config, s.docs[1].filters,
                                 s.docs[1].query, s.docs[1].dataTransforms)
           /\ visualLog' = <<[s EXCEPT !.updated = 1]>>
    /\ UNCHANGED <<qvars, rvars, dvars>>

TNext ==
    \/ \E c \in CallPool : TBegins(c)
    \/ TConfigStep
    \/ TDataTransformsStep
    \/ TQueryStep
    \/ TFiltersStep
    \/ TEncodes

SpecSteps == TInit /\ [][TNext]_vars

\* ------------------------------------------------------------------------
\* A Report on a container: update_fields, the decision of replace_field,
\* and write_file step by step.  Each step of write_file that calls the
\* operating system may fail instead.
\* ------------------------------------------------------------------------
TempPath == Report_temp_filepath(ReportPath)

\* Report.layout: the pages and the top-level config.
ReportLayout == [sections |-> layout, config |-> layoutConfig]

Paths == {ReportPath, TempPath}

\* Report.__init__ has read the layout of a container at ReportPath.
Init ==
    /\ \E names \in MemberNamesPool, tree \in LayoutPool(MaxVisuals) :
          /\ original = BuildContainer(names, tree, ReportBookmarks)
          /\ layout = Report_read_layout(original).sections
          /\ layoutConfig = Report_read_layout(original).config
    /\ fs = [p \in Paths |-> IF p = ReportPath THEN Some(original) ELSE Nothing]
    /\ updated = 0
    /\ reportLog = <<>>
    /\ pc = "loaded"
    /\ wpos = 0
    /\ QIdle
    /\ VIdle
    /\ DIdle

\* report.update_fields(old, new)
UpdateFields(c) ==
    /\ pc = "loaded"
    /\ Len(reportLog) < MaxCalls
    /\ LET r == Report_update_fields(layout, updated, c.old, c.new)
       IN  /\ layout' = r.layout
           /\ updated' = r.updated
           /\ pc' = IF r.raised THEN "raised" ELSE "loaded"
           /\ reportLog' = Append(reportLog,
                              [call |-> c, before |-> layout,
                               configBefore |-> layoutConfig,
                               updatedBefore |-> updated, raised |-> r.raised])
    /\ UNCHANGED <<fs, original, layoutConfig, wpos, qvars, vvars, dvars>>

\* replace_field after its one call of update_fields: report.updated is 0,
\* write_file is not called.
ReplaceFieldReturns ==
    /\ pc = "loaded"
    /\ Len(reportLog) = 1
    /\ ~(updated > 0)
    /\ pc' = "done"
    /\ UNCHANGED <<fs, original, layout, layoutConfig, updated, reportLog, wpos, qvars, vvars, dvars>>

\* A variant of replace_field that calls write_file whatever the counter.
Mutant_write_whatever_updated ==
    /\ pc = "loaded"
    /\ Len(reportLog) = 1
    /\ updated >= 0
    /\ pc' = "open"
    /\ UNCHANGED <<fs, original, layout, layoutConfig, updated, reportLog, wpos, qvars, vvars, dvars>>

\* replace_field calls write_file, which computes the temp path.
WriteFileBegins ==
    /\ pc = "loaded"
    /\ Len(reportLog) = 1
    /\ updated > 0
    /\ pc' = "open"
    /\ UNCHANGED <<fs, original, layout, layoutConfig, updated, reportLog, wpos, qvars, vvars, dvars>>

\* The two ZipFile(...) of the with statements: the original is opened for
\* reading and the temp archive is created.
WriteFileOpens ==
    /\ pc = "open"
    /\ fs' = [fs EXCEPT ![TempPath] = Some([members |-> <<>>, closed |-> FALSE])]
    /\ wpos' = 1
    /\ pc' = "copy"
    /\ UNCHANGED <<original, layout, layoutConfig, updated, reportLog, qvars, vvars, dvars>>

\* One iteration of the loop over original_zip.namelist().
WriteFileCopies ==
    /\ pc = "copy"
    /\ wpos <= Len(ZipNamelist(fs[ReportPath][1]))
    /\ fs' = [fs EXCEPT ![TempPath] =
                Some(Report_write_member(fs[TempPath][1], fs[ReportPath][1],
                                         ZipNamelist(fs[ReportPath][1])[wpos],
                                         ReportLayout))]
    /\ wpos' = wpos + 1
    /\ UNCHANGED <<original, layout, layoutConfig, updated, reportLog, pc, qvars, vvars, dvars>>

\* The with statements exit: the temp archive is closed.
WriteFileCloses ==
    /\ pc = "copy"
    /\ wpos > Len(ZipNamelist(fs[ReportPath][1]))
    /\ fs' = [fs EXCEPT ![TempPath] = Some([fs[TempPath][1] EXCEPT !.closed = TRUE])]
    /\ pc' = "remove"
    /\ UNCHANGED <<original, layout, layoutConfig, updated, reportLog, wpos, qvars, vvars, dvars>>

\* os.remove(self.filepath)
WriteFileRemoves ==
    /\ pc = "remove"
    /\ fs' = [fs EXCEPT ![ReportPath] = Nothing]
    /\ pc' = "rename"
    /\ UNCHANGED <<original, layout, layoutConfig, updated, reportLog, wpos, qvars, vvars, dvars>>

\* os.rename(temp_filepath, self.filepath)
WriteFileRenames ==
    /\ pc = "rename"
    /\ fs' = [fs EXCEPT ![ReportPath] = fs[TempPath], ![TempPath] = Nothing]
    /\ pc' = "done"
    /\ UNCHANGED <<original, layout, layoutConfig, updated, reportLog, wpos, qvars, vvars, dvars>>

\* The operating system call of the current step raises.  write_file has
\* no handler: the exception leaves it, and a with statement it passes
\* closes the temp archive with the members written so far.
WriteFileFails ==
    /\ pc \in {"open", "copy", "remove", "rename"}
    /\ fs' = IF pc = "copy"
             THEN [fs EXCEPT ![TempPath] = Some([fs[TempPath][1] EXCEPT !.closed = TRUE])]
             ELSE fs
    /\ pc' = "write_failed"
    /\ UNCHANGED <<original, layout, layoutConfig, updated, reportLog, wpos, qvars, vvars, dvars>>

Next ==
    \/ \E c \in ReportCallPool : UpdateFields(c)
    \/ ReplaceFieldReturns
    \/ WriteFileBegins
    \/ WriteFileOpens
    \/ WriteFileCopies
    \/ WriteFileCloses
    \/ WriteFileRemoves
    \/ WriteFileRenames
    \/ WriteFileFails

Spec == Init /\ [][Next]_vars

\* ------------------------------------------------------------------------
\* The reset of the slicers: Report.update_slicers on a report, and the
\* Slicer of visual.py on one visual.
\* ------------------------------------------------------------------------
SInit ==
    /\ \E names \in MemberNamesPool, tree \in SlicerLayoutPool(MaxVisuals) :
          /\ original = BuildContainer(names, tree, ReportBookmarks)
          /\ layout = Report_read_layout(original).sections
          /\ layoutConfig = Report_read_layout(original).config
    /\ fs = [p \in Paths |-> IF p = ReportPath THEN Some(original) ELSE Nothing]
    /\ updated = 0
    /\ reportLog = <<>>
    /\ pc = "loaded"
    /\ wpos = 0
    /\ visual \in SlicerVisualPool
    /\ visualLog = <<>>
    /\ QIdle
    /\ DIdle

\* report.update_slicers()
UpdateSlicers ==
    /\ pc = "loaded"
    /\ Len(reportLog) < MaxCalls
    /\ LET r == Report_update_slicers(layout, updated)
       IN  /\ layout' = r.layout
           /\ updated' = r.updated
           /\ pc' = IF r.raised THEN "raised" ELSE "loaded"
           /\ reportLog' = Append(reportLog,
                              [before |-> layout, configBefore |-> layoutConfig,
                               updatedBefore |-> updated, raised |-> r.raised])
    /\ UNCHANGED <<fs, original, layoutConfig, wpos, qvars, vvars, dvars>>

\* Slicer(layout).unselect_all_items() of visual.py
UnselectAllItems ==
    /\ Len(visualLog) < MaxCalls
    /\ LET r == Slicer_unselect_all_items(visual)
       IN  /\ visual' = r.layout
           /\ visualLog' = Append(visualLog,
                              [before |-> visual, updated |-> r.updated,
                               raised |-> r.raised])
    /\ UNCHANGED <<qvars, rvars, dvars>>

SNext == UpdateSlicers \/ UnselectAllItems

SpecSlicer == SInit /\ [][SNext]_vars

\* ------------------------------------------------------------------------
\* replace_field_in_all_reports: for each directory os.walk yields, starmap
\* hands replace_field on each report of the directory to the workers of
\* the pool and returns when all of them are done.  The file system is that
\* of POSIX: a name refers to an inode, an open file stays readable after
\* its name is removed, and opening an existing name for writing empties
\* its inode.
\* ------------------------------------------------------------------------
Workers == 1..MaxWorkers

\* The directories os.walk yields, in its order, and a directory outside
\* of them.
WalkDirs == <<"reports", "reports/archive">>

CwdPool == {"reports", "elsewhere"}

ModelName == [base |-> "Model", ext |-> ".pbix"]

\* The files a directory may hold beside the model, in the order of its
\* listing.
FileNamesPool(dir) ==
    IF dir = "reports"
    THEN <<[base |-> "Orders", ext |-> ".pbix"], [base |-> "Sales", ext |-> ".pbix"],
           [base |-> "Sales Temp", ext |-> ".pbix"], [base |-> "Sales", ext |-> ".bak"]>>
    ELSE <<[base |-> "Sales", ext |-> ".pbix"]>>

\* os.path.join(subdir, file)
PathJoin(subdir, file) == [dir |-> subdir, base |-> file.base, ext |-> file.ext]

\* The container a file of the walked directories holds at the start.
DriverContainer(path) ==
    LET chart(sel, style) == BuildVisual(ChartType, sel, <<>>, <<>>, <<>>, style)
        tree ==
            CASE path.base = "Sales" /\ path.dir = "reports" ->
                    << <<chart(<<Ref("Sales", "Qty")>>, FullStyle)>> >>
              [] path.base = "Sales" ->
                    << <<chart(<<Ref("Sales", "Qty")>>,
                               Style(FALSE, "qualified", "dataPoint", FALSE))>> >>
              [] path.base = "Sales Temp" ->
                    << <<chart(<<Ref("Sales", "Qty"), Ref("Sales", "Region")>>, FullStyle)>> >>
              [] OTHER ->
                    << <<chart(<<Ref("Sales", "Region")>>, FullStyle)>> >>
    IN  BuildContainer(<<"Version", "SecurityBindings", "Report/Layout", "Settings">>,
                       tree, ReportBookmarks)

\* The old and new qualifiers the driver was given.
DriverCall == Call(Ref("Sales", "Qty"), Ref("Orders", "Count"))

\* [... for file in files if file.split(".")[-1] == "pbix" and file != model]
StarmapArguments(subdir, files) ==
    LET Wanted(file) == file.ext = ".pbix" /\ file # ModelName
        wanted == SelectSeq(files, Wanted)
    IN  [i \in DOMAIN wanted |-> PathJoin(subdir, wanted[i])]

\* A path as the operating system resolves it: a relative path is taken
\* from the working directory.
Resolve(path, dir) == IF path.dir = "." THEN [path EXCEPT !.dir = dir] ELSE path

\* The file a name of the file system refers to.
FileAt(filesystem, path) == filesystem.inodes[filesystem.names[path]]

\* ZipFile(path, "r") succeeds: the name exists and its file is a complete
\* archive.
Readable(filesystem, path) ==
    path \in DOMAIN filesystem.names /\ FileAt(filesystem, path).closed

\* The file system with the name path on the inode number.
Link(filesystem, path, number) ==
    [filesystem EXCEPT !.names =
        [q \in DOMAIN @ \cup {path} |-> IF q = path THEN number ELSE @[q]]]

\* The file system without the name path.
Unlink(filesystem, path) ==
    [filesystem EXCEPT !.names = [q \in DOMAIN @ \ {path} |-> @[q]]]

\* ZipFile(path, "w"): an existing file is emptied, a missing one created.
CreateArchive(filesystem, path) ==
    LET empty == [members |-> <<>>, closed |-> FALSE]
    IN  IF path \in DOMAIN filesystem.names
        THEN [filesystem EXCEPT !.inodes[filesystem.names[path]] = empty]
        ELSE Link([filesystem EXCEPT !.inodes = Append(@, empty)], path,
                  Len(filesystem.inodes) + 1)

\* The loop of write_file over the names that remain.
RECURSIVE WriteMembers(_, _, _, _)
WriteMembers(new_zip, original_zip, names, document) ==
    IF names = <<>> THEN new_zip
    ELSE WriteMembers(Report_write_member(new_zip, original_zip, Head(names), document),
                      original_zip, Tail(names), document)

\* What replace_field makes of a container when nothing else touches the
\* file system: the container at the path afterwards.
ReplaceFieldAlone(file) ==
    LET document == Report_read_layout(file)
        r == Report_update_fields(document.sections, 0, DriverCall.old, DriverCall.new)
    IN  IF r.updated > 0
        THEN [WriteMembers([members |-> <<>>, closed |-> FALSE], file, ZipNamelist(file),
                           [sections |-> r.layout, config |-> document.config])
                EXCEPT !.closed = TRUE]
        ELSE file

IdleWorker ==
    [pc |-> "idle", path |-> Nothing, report |-> Nothing, src |-> 0,
     opened |-> Nothing, tmp |-> 0]

\* The driver starts in a working directory on directories that hold the
\* model and some reports.
DInit ==
    /\ cwd \in CwdPool
    /\ \E top \in SUBSET (1..Len(FileNamesPool(WalkDirs[1]))),
          sub \in SUBSET (1..Len(FileNamesPool(WalkDirs[2]))) :
          LET Chosen(d, picked) ==
                  LET In(i) == i \in picked
                      idx == SelectSeq([i \in 1..Len(FileNamesPool(WalkDirs[d])) |-> i], In)
                  IN  [i \in DOMAIN idx |-> FileNamesPool(WalkDirs[d])[idx[i]]]
              files == <<Chosen(1, top) \o <<ModelName>>, Chosen(2, sub)>>
              paths == [d \in 1..2 |-> [i \in DOMAIN files[d] |-> PathJoin(WalkDirs[d], files[d][i])]]
              all   == paths[1] \o paths[2]
          IN  /\ top # {}
              /\ disk = [names  |-> [q \in Range(all) |->
                                        CHOOSE i \in DOMAIN all : all[i] = q],
                         inodes |-> [i \in DOMAIN all |-> DriverContainer(all[i])]]
              /\ batches = [d \in 1..2 |-> StarmapArguments(WalkDirs[d], files[d])]
    /\ diskBefore = disk
    /\ workers = [w \in Workers |-> IdleWorker]
    /\ failed = FALSE
    /\ QIdle
    /\ VIdle
    /\ RIdle

\* The task of worker w raises: the pool keeps the exception for starmap
\* and the worker is free for the next task.
Raises(w) == [workers EXCEPT ![w] = IdleWorker]

\* A free worker is handed the next argument of the running starmap.
DTakes(w) ==
    /\ batches # <<>>
    /\ Head(batches) # <<>>
    /\ workers[w].pc = "idle"
    /\ workers' = [workers EXCEPT ![w] =
                     [IdleWorker EXCEPT !.pc = "init", !.path = Some(Head(Head(batches)))]]
    /\ batches' = <<Tail(Head(batches))>> \o Tail(batches)
    /\ UNCHANGED <<cwd, disk, diskBefore, failed, qvars, vvars, rvars>>

\* report = Report(path); report.update_fields(old, new);
\* if report.updated > 0: report.write_file() begins
DConstructs(w) ==
    /\ workers[w].pc = "init"
    /\ LET path == workers[w].path[1]
       IN  IF ~Readable(disk, path)
           THEN workers' = Raises(w) /\ failed' = TRUE
           ELSE LET document == Report_read_layout(FileAt(disk, path))
                    r == Report_update_fields(document.sections, 0,
                                              DriverCall.old, DriverCall.new)
                IN  /\ failed' = (failed \/ r.raised)
                    /\ workers' =
                         IF r.raised \/ ~(r.updated > 0)
                         THEN [workers EXCEPT ![w] = IdleWorker]
                         ELSE [workers EXCEPT ![w].pc = "open",
                                 ![w].report = Some([sections |-> r.layout,
                                                     config |-> document.config])]
    /\ UNCHANGED <<cwd, disk, diskBefore, batches, qvars, vvars, rvars>>

\* The two ZipFile(...) of write_file: the original is opened and the temp
\* archive is created at its path under the working directory.
DOpens(w) ==
    /\ workers[w].pc = "open"
    /\ LET path == workers[w].path[1]
           temp == Resolve(Report_temp_filepath(path), cwd)
       IN  IF ~Readable(disk, path)
           THEN workers' = Raises(w) /\ failed' = TRUE /\ disk' = disk
           ELSE /\ disk' = CreateArchive(disk, temp)
                /\ workers' = [workers EXCEPT ![w].pc = "copy",
                                 ![w].src = disk.names[path],
                                 ![w].opened = Some(FileAt(disk, path)),
                                 ![w].tmp = disk'.names[temp]]
                /\ failed' = failed
    /\ UNCHANGED <<cwd, diskBefore, batches, qvars, vvars, rvars>>

\* The loop of write_file and the end of the with statements.  Reading a
\* member of the original raises when its file has been emptied or
\* rewritten since it was opened; the temp archive is closed either way.
DCopies(w) ==
    /\ workers[w].pc = "copy"
    /\ LET original_zip == workers[w].opened[1]
       IN  IF disk.inodes[workers[w].src] # original_zip
           THEN /\ disk' = [disk EXCEPT !.inodes[workers[w].tmp].closed = TRUE]
                /\ workers' = Raises(w)
                /\ failed' = TRUE
           ELSE /\ disk' = [disk EXCEPT !.inodes[workers[w].tmp] =
                              [WriteMembers([members |-> <<>>, closed |-> FALSE],
                                            original_zip, ZipNamelist(original_zip),
                                            workers[w].report[1])
                                  EXCEPT !.closed = TRUE]]
                /\ workers' = [workers EXCEPT ![w].pc = "remove"]
                /\ failed' = failed
    /\ UNCHANGED <<cwd, diskBefore, batches, qvars, vvars, rvars>>

\* os.remove(self.filepath)
DRemoves(w) ==
    /\ workers[w].pc = "remove"
    /\ LET path == workers[w].path[1]
       IN  IF path \notin DOMAIN disk.names
           THEN workers' = Raises(w) /\ failed' = TRUE /\ disk' = disk
           ELSE /\ disk' = Unlink(disk, path)
                /\ workers' = [workers EXCEPT ![w].pc = "rename"]
                /\ failed' = failed
    /\ UNCHANGED <<cwd, diskBefore, batches, qvars, vvars, rvars>>

\* os.rename(temp_filepath, self.filepath); replace_field returns.
DRenames(w) ==
    /\ workers[w].pc = "rename"
    /\ LET path == workers[w].path[1]
           temp == Resolve(Report_temp_filepath(path), cwd)
       IN  IF temp \notin DOMAIN disk.names
           THEN workers' = Raises(w) /\ failed' = TRUE /\ disk' = disk
           ELSE /\ disk' = Unlink(Link(disk, path, disk.names[temp]), temp)
                /\ workers' = [workers EXCEPT ![w] = IdleWorker]
                /\ failed' = failed
    /\ UNCHANGED <<cwd, diskBefore, batches, qvars, vvars, rvars>>

\* starmap returns: every task of the directory is done and none raised.
DStarmapReturns ==
    /\ batches # <<>>
    /\ Head(batches) = <<>>
    /\ \A w \in Workers : workers[w].pc = "idle"
    /\ ~failed
    /\ batches' = Tail(batches)
    /\ UNCHANGED <<cwd, disk, diskBefore, workers, failed, qvars, vvars, rvars>>

\* starmap raises the exception of a task: the driver ends.
DStarmapRaises ==
    /\ batches # <<>>
    /\ Head(batches) = <<>>
    /\ \A w \in Workers : workers[w].pc = "idle"
    /\ failed
    /\ batches' = <<>>
    /\ UNCHANGED <<cwd, disk, diskBefore, workers, failed, qvars, vvars, rvars>>

DNext ==
    \/ \E w \in Workers : DTakes(w)
    \/ \E w \in Workers : DConstructs(w)
    \/ \E w \in Workers : DOpens(w)
    \/ \E w \in Workers : DCopies(w)
    \/ \E w \in Workers : DRemoves(w)
    \/ \E w \in Workers : DRenames(w)
    \/ DStarmapReturns
    \/ DStarmapRaises

SpecDriver == DInit /\ [][DNext]_vars

\* The layout and the counter after call k of the log.
LayoutAfter(k) == IF k = Len(reportLog) THEN layout ELSE reportLog[k + 1].before

UpdatedAfter(k) == IF k = Len(reportLog) THEN updated ELSE reportLog[k + 1].updatedBefore

\* The layout after call k of the log.
VisualAfter(k) == IF k = Len(visualLog) THEN visual ELSE visualLog[k + 1].before

\* The identifiers of a visual: every Select.Name of prototypeQuery, of the
\* query commands and of queryMetadata.Select, every selects.queryName,
\* every projections queryRef and every columnProperties key.
Identifiers(visual_layout) ==
    LET config == JsonLoads(visual_layout.config)
        SelectNames(q) == {q.Select[i].Name : i \in DOMAIN q.Select}
    IN  SelectNames(config.prototypeQuery)
        \cup Range(config.projections)
        \cup DOMAIN config.columnProperties
        \cup (IF visual_layout.query = Nothing THEN {}
              ELSE UNION {SelectNames(JsonLoads(visual_layout.query[1]).Commands[i]) :
                          i \in DOMAIN JsonLoads(visual_layout.query[1]).Commands})
        \cup (IF visual_layout.dataTransforms = Nothing THEN {}
              ELSE LET dt == JsonLoads(visual_layout.dataTransforms[1])
                   IN  {dt.selects[i].queryName : i \in DOMAIN dt.selects}
                       \cup {dt.queryMetadata.Select[i].Name :
                             i \in DOMAIN dt.queryMetadata.Select})

\* C2 as claimed: after DataVisual.update_fields(old, new) has rewritten a
\* visual, none of its identifiers equals old_qualified.
C2_NoOldIdentifier ==
    \A k \in DOMAIN visualLog :
        visualLog[k].updated = 1 =>
            visualLog[k].call.old \notin Identifiers(VisualAfter(k))

\* C2 amended: after DataVisual.update_fields(old, new) with old different
\* from new has rewritten a visual, none of its identifiers (Select.Name in
\* prototypeQuery, in the query commands and in queryMetadata.Select,
\* selects.queryName, projections queryRef, columnProperties keys) equals
\* old_qualified.
C2_NoOldIdentifierWhenRenamed ==
    \A k \in DOMAIN visualLog :
        (visualLog[k].updated = 1 /\ visualLog[k].call.old # visualLog[k].call.new) =>
            visualLog[k].call.old \notin Identifiers(VisualAfter(k))

\* A rewrite with old # new of a visual that carried old_qualified as a
\* projection, a columnProperties key, a selects.queryName and a Select.Name
\* of a query command.
C2_Witness ==
    \E k \in DOMAIN visualLog :
        LET b == visualLog[k].before
            old == visualLog[k].call.old
        IN  /\ visualLog[k].updated = 1
            /\ old # visualLog[k].call.new
            /\ old \in Range(JsonLoads(b.config).projections)
            /\ old \in DOMAIN JsonLoads(b.config).columnProperties
            /\ b.query # Nothing
            /\ b.dataTransforms # Nothing
            /\ \E i \in DOMAIN JsonLoads(b.dataTransforms[1]).selects :
                  JsonLoads(b.dataTransforms[1]).selects[i].queryName = old

\* Every Source used in Select, Where and OrderBy names exactly one From entry.
AliasIntegrity(q) ==
    LET sources == {q.Select[i].Source : i \in DOMAIN q.Select}
                   \cup {q.OrderBy[i].Source : i \in DOMAIN q.OrderBy}
                   \cup UNION {{q.Where[i][k].Source : k \in DOMAIN q.Where[i]} :
                               i \in DOMAIN q.Where}
    IN  \A a \in sources : Cardinality({i \in DOMAIN q.From : q.From[i].Name = a}) = 1

\* Every From entry is referenced by Select or by Where.
AliasMinimality(q) ==
    \A i \in DOMAIN q.From :
        \/ \E j \in DOMAIN q.Select : q.Select[j].Source = q.From[i].Name
        \/ \E j \in DOMAIN q.Where : \E k \in DOMAIN q.Where[j] :
              q.Where[j][k].Source = q.From[i].Name

\* C3: alias integrity is preserved by SemanticQuery.update_fields: if every
\* Source used in Select, Where and OrderBy named exactly one From entry
\* before the call, the same holds after it.
C3_AliasIntegrityPreserved ==
    (queryCall # Nothing /\ AliasIntegrity(queryBefore)) => AliasIntegrity(query)

\* C4: alias minimality holds after a rewrite: no From entry of a query the
\* rewriter was run on is referenced by neither Select nor Where, whether or
\* not the query contained old_qualified.
C4_AliasMinimalityAfterRewrite ==
    queryCall # Nothing => AliasMinimality(query)

\* ------------------------------------------------------------------------
\* Claims about Report.update_fields, replace_field and write_file.
\* ------------------------------------------------------------------------
\* The visuals of a layout tree.
VisualsOf(tree) == {tree[i][j] : <<i, j>> \in Range(VisualPositions(tree, 1))}

\* The visual predicate matches in no data visual of the tree.
MatchesNoDataVisual(tree, old) ==
    \A v \in VisualsOf(tree) :
        JsonLoads(v.config).visualType \notin NonDataVisuals => ~DataVisual_find_field(v, old)

\* C1: when the visual predicate matches old in no data visual of the
\* report, Report.update_fields(old, new) leaves the layout tree and
\* Report.updated as they were (0 on a fresh Report), and replace_field
\* then does not call write_file: no temp file appears and the container at
\* the report's path stays the one that was read.
C1_NoMatchNoRewriteNoWrite ==
    \A k \in DOMAIN reportLog :
        MatchesNoDataVisual(reportLog[k].before, reportLog[k].call.old) =>
            /\ LayoutAfter(k) = reportLog[k].before
            /\ UpdatedAfter(k) = reportLog[k].updatedBefore
            /\ (k = 1 /\ Len(reportLog) = 1) =>
                  /\ updated = 0
                  /\ pc \in {"loaded", "done", "raised"}
                  /\ fs[ReportPath] = Some(original)
                  /\ fs[TempPath] = Nothing

\* replace_field has returned for a report with a data visual that the
\* predicate did not match.
C1_Witness ==
    /\ pc = "done"
    /\ Len(reportLog) = 1
    /\ MatchesNoDataVisual(reportLog[1].before, reportLog[1].call.old)
    /\ \E v \in VisualsOf(reportLog[1].before) :
          JsonLoads(v.config).visualType \notin NonDataVisuals

\* C5: Report.update_fields(old, new) leaves every visual of type image,
\* textbox, shape or actionButton, and every visual without a type, exactly
\* as it was.
C5_NonDataVisualsUntouched ==
    \A k \in DOMAIN reportLog :
        \A pos \in Range(VisualPositions(reportLog[k].before, 1)) :
            LET before == reportLog[k].before[pos[1]][pos[2]]
            IN  JsonLoads(before.config).visualType
                    \in {Some(Text("image")), Some(Text("textbox")), Some(Text("shape")),
                         Some(Text("actionButton")), Nothing}
                => LayoutAfter(k)[pos[1]][pos[2]] = before

\* A call rewrote a data visual of a report that also holds a non-data
\* visual mentioning old.
C5_Witness ==
    \E k \in DOMAIN reportLog :
        /\ UpdatedAfter(k) > reportLog[k].updatedBefore
        /\ \E v \in VisualsOf(reportLog[k].before) :
              /\ JsonLoads(v.config).visualType = Some(Text("textbox"))
              /\ DataVisual_find_field(v, reportLog[k].call.old)

\* C6: the container write_file leaves at the report's path has no
\* SecurityBindings member, has every other member of the input in the
\* input's order, holds every member other than Report/Layout with the
\* input's bytes, and holds as Report/Layout the serialised layout tree.
C6_WrittenContainer ==
    (pc = "done" /\ updated > 0) =>
        /\ fs[ReportPath] # Nothing
        /\ LET out == fs[ReportPath][1]
               NotBindings(n) == n # "SecurityBindings"
           IN  /\ out.closed
               /\ ZipNamelist(out) = SelectSeq(ZipNamelist(original), NotBindings)
               /\ \A i \in DOMAIN out.members :
                     IF out.members[i].name = "Report/Layout"
                     THEN /\ out.members[i].data.units.fmt = "dumps"
                          /\ ~out.members[i].data.bom
                          /\ JsonLoads(DecodeUtf16(out.members[i].data)) = ReportLayout
                     ELSE out.members[i].data = ZipRead(original, out.members[i].name)

\* write_file has finished on a container that had a SecurityBindings member.
C6_Witness ==
    /\ pc = "done"
    /\ updated > 0
    /\ \E i \in DOMAIN original.members : original.members[i].name = "SecurityBindings"

\* C7: for old different from new, a second update_fields(old, new) on a
\* report leaves the layout tree as the first left it and adds 0 to
\* Report.updated.
C7_Idempotent ==
    \A k \in DOMAIN reportLog :
        (/\ k + 1 \in DOMAIN reportLog
         /\ reportLog[k].call = reportLog[k + 1].call
         /\ reportLog[k].call.old # reportLog[k].call.new) =>
            /\ LayoutAfter(k + 1) = LayoutAfter(k)
            /\ UpdatedAfter(k + 1) = UpdatedAfter(k)

\* What a semantic query refers to: per Select its name, table and field,
\* per Where and OrderBy reference its table and field, and the tables of
\* From.  A table is found through the alias; aliases themselves are left out.
QueryReferences(q) ==
    LET EntityOf(alias) ==
            {q.From[i].Entity : i \in {j \in DOMAIN q.From : q.From[j].Name = alias}}
    IN  [Select  |-> [i \in DOMAIN q.Select |->
                        <<q.Select[i].Name, EntityOf(q.Select[i].Source),
                          q.Select[i].Property>>],
         Where   |-> [i \in DOMAIN q.Where |->
                        [n \in DOMAIN q.Where[i] |->
                            <<EntityOf(q.Where[i][n].Source), q.Where[i][n].Property>>]],
         OrderBy |-> [i \in DOMAIN q.OrderBy |->
                        <<EntityOf(q.OrderBy[i].Source), q.OrderBy[i].Property>>],
         From    |-> {q.From[i].Entity : i \in DOMAIN q.From}]

\* What a visual refers to, in every sub-document.
VisualReferences(visual_layout) ==
    LET config  == JsonLoads(visual_layout.config)
        filters == JsonLoads(visual_layout.filters)
    IN  [prototypeQuery   |-> QueryReferences(config.prototypeQuery),
         projections      |-> config.projections,
         columnProperties |-> DOMAIN config.columnProperties,
         filters |-> [i \in DOMAIN filters |->
                        <<filters[i].Entity, filters[i].Property,
                          IF filters[i].filter = Nothing THEN Nothing
                          ELSE Some(QueryReferences(filters[i].filter[1]))>>],
         query |-> IF visual_layout.query = Nothing THEN Nothing
                   ELSE LET commands == JsonLoads(visual_layout.query[1]).Commands
                        IN  Some([i \in DOMAIN commands |-> QueryReferences(commands[i])]),
         selects |-> IF visual_layout.dataTransforms = Nothing THEN Nothing
                     ELSE LET dt == JsonLoads(visual_layout.dataTransforms[1])
                          IN  Some([i \in DOMAIN dt.selects |->
                                      <<dt.selects[i].queryName, dt.selects[i].Entity,
                                        dt.selects[i].Property>>])]

\* C8: update_fields(old, new) followed by update_fields(new, old) restores
\* every Select name, field Property, projection queryRef, columnProperties
\* key and filter, OrderBy and Where reference of the visual, and the set
\* of From tables.  (Neither module reads bookmarks; they are not part of
\* a visual here.)
C8_InverseRoundTrip ==
    \A k \in DOMAIN visualLog :
        (/\ k + 1 \in DOMAIN visualLog
         /\ visualLog[k].call.old # visualLog[k].call.new
         /\ visualLog[k + 1].call = [old |-> visualLog[k].call.new, new |-> visualLog[k].call.old]
         /\ ~visualLog[k].raised /\ ~visualLog[k + 1].raised) =>
            VisualReferences(VisualAfter(k + 1)) = VisualReferences(visualLog[k].before)

\* The container a complete write_file produces from the one that was read.
CompleteNewContainer ==
    LET NotBindings(n) == n # "SecurityBindings"
        names == SelectSeq(ZipNamelist(original), NotBindings)
    IN  [members |-> [i \in DOMAIN names |->
                        [name |-> names[i],
                         data |-> IF names[i] = "Report/Layout"
                                  THEN EncodeUtf16le(JsonDumps(ReportLayout))
                                  ELSE ZipRead(original, names[i])]],
         closed |-> TRUE]

\* C9: in every state during and after write_file, a failure of any step
\* included, the report's path holds the complete original container or
\* the complete new one.
C9_AtomicWrite ==
    fs[ReportPath] \in {Some(original), Some(CompleteNewContainer)}

\* C10: when write_file has raised or returned, the temp file does not exist.
C10_TempRemovedAfterFailure ==
    pc \in {"write_failed", "done"} => fs[TempPath] = Nothing

\* C11: an error raised while one visual is rewritten does not stop
\* Report.update_fields: every data visual whose own rewrite does not raise
\* is left as its rewrite leaves it, wherever it stands, and the counter
\* grows by the number of visuals that were rewritten.
C11_ErrorDoesNotHaltTraversal ==
    \A k \in DOMAIN reportLog :
        LET before == reportLog[k].before
            c == reportLog[k].call
            Rewrite(pos) == Report_DataVisual_update_fields(before[pos[1]][pos[2]], c.old, c.new)
            good == {pos \in Range(VisualPositions(before, 1)) :
                        /\ JsonLoads(before[pos[1]][pos[2]].config).visualType \notin NonDataVisuals
                        /\ ~Rewrite(pos).raised}
        IN  /\ \A pos \in good : LayoutAfter(k)[pos[1]][pos[2]] = Rewrite(pos).layout
            /\ UpdatedAfter(k) = reportLog[k].updatedBefore
                                 + Cardinality({pos \in good : Rewrite(pos).updated = 1})

\* C12: no step of the visual rewrite raises when its target pattern is
\* absent (no Where, no OrderBy, a Where condition without Property, no
\* selects entry named old_qualified or none with a displayName, no objects
\* or no dataPoint): with well-formed qualifiers, no call of
\* DataVisual(layout).update_fields(old, new) ends in an exception.
C12_AbsentPatternIsNoOp ==
    \A k \in DOMAIN visualLog :
        (~SplitRaises(visualLog[k].call.old) /\ ~SplitRaises(visualLog[k].call.new)) =>
            ~visualLog[k].raised

\* C13: a call of Report.update_fields with an old or new qualifier that
\* does not hold exactly one '.' raises, whatever the report holds, and
\* leaves the layout tree and the container as they were.
C13_MalformedQualifierRejected ==
    \A k \in DOMAIN reportLog :
        (SplitRaises(reportLog[k].call.old) \/ SplitRaises(reportLog[k].call.new)) =>
            /\ reportLog[k].raised
            /\ LayoutAfter(k) = reportLog[k].before
            /\ UpdatedAfter(k) = reportLog[k].updatedBefore
            /\ k = 1 => fs[ReportPath] = Some(original) /\ fs[TempPath] = Nothing

\* The Select entry i of q is the only user of its alias: no other Select
\* entry, no Where reference and no OrderBy reference has its Source.
OnlyUserOfAlias(q, i) ==
    LET alias == q.Select[i].Source
    IN  /\ \A j \in DOMAIN q.Select : j # i => q.Select[j].Source # alias
        /\ \A j \in DOMAIN q.Where : \A n \in DOMAIN q.Where[j] : q.Where[j][n].Source # alias
        /\ \A j \in DOMAIN q.OrderBy : q.OrderBy[j].Source # alias

\* The Select entry i of the query, which was named old_qualified, is now
\* named new_qualified, has the new field as Property and has as Source
\* the alias of a From entry of the new table.
SelectEntryRewritten(i) ==
    /\ query.Select[i].Name = queryCall[1].new
    /\ query.Select[i].Property = FieldOf(queryCall[1].new)
    /\ \E j \in DOMAIN query.From :
          /\ query.From[j].Name = query.Select[i].Source
          /\ query.From[j].Entity = TableOf(queryCall[1].new)

\* C14 as claimed: after SemanticQuery.update_fields every Select entry
\* that was named old_qualified is rewritten to the new name, field and
\* alias, and when it was the only user of the old table's alias, From has
\* no entry of the old table any more.
C14_SelectRewritten ==
    queryCall # Nothing =>
        \A i \in DOMAIN queryBefore.Select :
            queryBefore.Select[i].Name = queryCall[1].old =>
                /\ SelectEntryRewritten(i)
                /\ OnlyUserOfAlias(queryBefore, i) =>
                      \A j \in DOMAIN query.From :
                          query.From[j].Entity # TableOf(queryCall[1].old)

\* C14 amended: after SemanticQuery.update_fields every Select entry that
\* was named old_qualified has Name new_qualified, Property new_field and
\* a Source that is the alias of a From entry of new_table; when it was the
\* only user of the old table's alias and new_table is another table than
\* old_table, From has no entry of the old table any more.
C14_SelectRewrittenOtherTable ==
    queryCall # Nothing =>
        \A i \in DOMAIN queryBefore.Select :
            queryBefore.Select[i].Name = queryCall[1].old =>
                /\ SelectEntryRewritten(i)
                /\ (/\ OnlyUserOfAlias(queryBefore, i)
                    /\ TableOf(queryCall[1].new) # TableOf(queryCall[1].old)) =>
                      \A j \in DOMAIN query.From :
                          query.From[j].Entity # TableOf(queryCall[1].old)

\* A Select entry named old_qualified that was the only user of its alias
\* was rewritten to another table.
C14_Witness ==
    /\ queryCall # Nothing
    /\ TableOf(queryCall[1].new) # TableOf(queryCall[1].old)
    /\ \E i \in DOMAIN queryBefore.Select :
          /\ queryBefore.Select[i].Name = queryCall[1].old
          /\ OnlyUserOfAlias(queryBefore, i)
          /\ Len(queryBefore.From) > 1

\* The query as the ensure-alias step of the last call found it: the query
\* before the call, after the pruning of step 1.
QueryAtEnsureAlias ==
    SemanticQuery_prune_from_tables(queryBefore, queryCall[1].old, TableOf(queryCall[1].old))

\* C15: when From holds an entry of new_table at the ensure-alias step,
\* From is left as it is and the rewritten Select entries take that entry's
\* alias; otherwise exactly one entry {Name: generated alias, Entity:
\* new_table, Type: 0} is appended and the rewritten Select entries take
\* the generated alias.
C15_AliasReusedOrAppended ==
    queryCall # Nothing =>
        LET frm == QueryAtEnsureAlias.From
            new_table == TableOf(queryCall[1].new)
            found == {j \in DOMAIN frm : frm[j].Entity = new_table}
            TakesAlias(a) ==
                \A i \in DOMAIN queryBefore.Select :
                    queryBefore.Select[i].Name = queryCall[1].old => query.Select[i].Source = a
        IN  IF found # {}
            THEN /\ query.From = frm
                 /\ \E j \in found : TakesAlias(frm[j].Name)
            ELSE /\ Len(query.From) = Len(frm) + 1
                 /\ SubSeq(query.From, 1, Len(frm)) = frm
                 /\ query.From[Len(frm) + 1].Entity = new_table
                 /\ query.From[Len(frm) + 1].Type = 0
                 /\ query.From[Len(frm) + 1].Name
                        = SemanticQuery_generate_table_aliases(frm, new_table)
                 /\ TakesAlias(query.From[Len(frm) + 1].Name)

\* A call whose new table was already in From at the ensure-alias step and
\* that rewrote a Select entry.
C15_Witness ==
    /\ queryCall # Nothing
    /\ \E j \in DOMAIN QueryAtEnsureAlias.From :
          QueryAtEnsureAlias.From[j].Entity = TableOf(queryCall[1].new)
    /\ TableOf(queryCall[1].new) # TableOf(queryCall[1].old)
    /\ \E i \in DOMAIN queryBefore.Select : queryBefore.Select[i].Name = queryCall[1].old

\* The number an alias ends with: the decimal value of the digits after its
\* first character, 0 when there are none.
RECURSIVE DecimalValue(_)
DecimalValue(digits) ==
    IF digits = <<>> THEN 0
    ELSE 10 * DecimalValue(SubSeq(digits, 1, Len(digits) - 1))
         + (CHOOSE d \in 0..9 : IntToStr(d) = <<digits[Len(digits)]>>)

TrailingInteger(alias) == DecimalValue(Tail(alias))

\* C16: the generated alias is the lowercased first character c of
\* new_table when no alias of From begins with c, and otherwise c followed
\* by max+1, max being the largest trailing integer of the aliases that
\* begin with c; it differs from every alias of From.
C16_GeneratedAlias ==
    aliasOut # Nothing =>
        LET c == FirstCharLower(aliasTable)
            same == {i \in DOMAIN aliasFrom : <<Head(aliasFrom[i].Name)>> = c}
            max == SetMax({TrailingInteger(aliasFrom[i].Name) : i \in same})
        IN  /\ same = {} => aliasOut[1] = c
            /\ same # {} => aliasOut[1] = c \o IntToStr(max + 1)
            /\ \A i \in DOMAIN aliasFrom : aliasFrom[i].Name # aliasOut[1]

\* An alias was generated for a table whose letter is taken by several
\* aliases, one of them with a number of two digits.
C16_Witness ==
    /\ aliasOut # Nothing
    /\ aliasTable = Text("Stores")
    /\ \E i, j \in DOMAIN aliasFrom :
          aliasFrom[i].Name = <<"s", "1", "0">> /\ aliasFrom[j].Name = <<"s">>

\* The columnProperties entry of old_qualified was moved to new_qualified
\* with its value, every other entry is as it was, and every projection
\* queryRef that was old_qualified is new_qualified; keys and queryRefs
\* that were Select names are Select names.
ColumnPropertiesMoved(before, after, old, new) ==
    LET cpB == before.columnProperties
        cpA == after.columnProperties
        Names(c) == {c.prototypeQuery.Select[i].Name : i \in DOMAIN c.prototypeQuery.Select}
    IN  /\ old \in DOMAIN cpB =>
              /\ new \in DOMAIN cpA
              /\ cpA[new] = cpB[old]
              /\ old \notin DOMAIN cpA
              /\ \A n \in DOMAIN cpB \ {old} : n \in DOMAIN cpA /\ cpA[n] = cpB[n]
              /\ DOMAIN cpA \subseteq (DOMAIN cpB \ {old}) \cup {new}
        /\ old \notin DOMAIN cpB => cpA = cpB
        /\ Len(after.projections) = Len(before.projections)
        /\ \A i \in DOMAIN before.projections :
              after.projections[i] = IF before.projections[i] = old THEN new
                                     ELSE before.projections[i]
        /\ (DOMAIN cpB \cup Range(before.projections)) \subseteq Names(before)
              => (DOMAIN cpA \cup Range(after.projections)) \subseteq Names(after)

\* C17 as claimed: after the Config rewrite the columnProperties entry of
\* old_qualified stands under new_qualified with its value, old_qualified
\* is no key, the other entries are unchanged, and the projections that
\* named old_qualified name new_qualified.
C17_ColumnPropertiesMoved ==
    \A k \in DOMAIN visualLog :
        visualLog[k].updated = 1 =>
            ColumnPropertiesMoved(JsonLoads(visualLog[k].before.config),
                                  JsonLoads(VisualAfter(k).config),
                                  visualLog[k].call.old, visualLog[k].call.new)

\* C17 amended: the same, for old_qualified different from new_qualified
\* and new_qualified not already a key of columnProperties.
C17_ColumnPropertiesMovedToFreeKey ==
    \A k \in DOMAIN visualLog :
        (/\ visualLog[k].updated = 1
         /\ visualLog[k].call.old # visualLog[k].call.new
         /\ visualLog[k].call.new
                \notin DOMAIN JsonLoads(visualLog[k].before.config).columnProperties) =>
            ColumnPropertiesMoved(JsonLoads(visualLog[k].before.config),
                                  JsonLoads(VisualAfter(k).config),
                                  visualLog[k].call.old, visualLog[k].call.new)

\* A rewrite moved a columnProperties entry beside another entry.
C17_Witness ==
    \E k \in DOMAIN visualLog :
        /\ visualLog[k].updated = 1
        /\ visualLog[k].call.old # visualLog[k].call.new
        /\ visualLog[k].call.old \in DOMAIN JsonLoads(visualLog[k].before.config).columnProperties
        /\ visualLog[k].call.new
               \notin DOMAIN JsonLoads(visualLog[k].before.config).columnProperties
        /\ Cardinality(DOMAIN JsonLoads(visualLog[k].before.config).columnProperties) = 2

\* Every selects entry of the dataTransforms that was named old_qualified
\* has new_field as displayName when its displayName was old_field, and
\* its displayName as it was otherwise.
DisplayNamesRewritten(before, after, old, new) ==
    /\ Len(after.selects) = Len(before.selects)
    /\ \A i \in DOMAIN before.selects :
          before.selects[i].queryName = old =>
              after.selects[i].displayName =
                  IF before.selects[i].displayName = Some(FieldOf(old))
                  THEN Some(FieldOf(new))
                  ELSE before.selects[i].displayName

\* C18: when Report.update_fields(old, new) returns, in every data visual
\* that has dataTransforms each selects entry that was named old_qualified
\* has displayName new_field if its displayName was old_field, and its
\* displayName unchanged if it was another text.
C18_DisplayNameFollowsField ==
    \A k \in DOMAIN reportLog :
        ~reportLog[k].raised =>
            \A pos \in Range(VisualPositions(reportLog[k].before, 1)) :
                LET b == reportLog[k].before[pos[1]][pos[2]]
                    a == LayoutAfter(k)[pos[1]][pos[2]]
                IN  (GenericVisual_is_data_visual(b) /\ b.dataTransforms # Nothing) =>
                        DisplayNamesRewritten(JsonLoads(b.dataTransforms[1]),
                                              JsonLoads(a.dataTransforms[1]),
                                              reportLog[k].call.old, reportLog[k].call.new)

\* The bookmarks of a top-level config.
BookmarksOf(config) == JsonLoads(config).bookmarks

\* The layout["config"] after call k of the log.
ConfigAfter(k) == IF k = Len(reportLog) THEN layoutConfig ELSE reportLog[k + 1].configBefore

\* C19: when Report.update_fields(old, new) returns for qualifiers of the
\* form Table.Field, every bookmark node of the top-level config that had
\* Property old_field and Entity old_table has new_field and new_table,
\* and every other bookmark node, one with the same Property and another
\* Entity included, is as it was.
C19_BookmarksRewritten ==
    \A k \in DOMAIN reportLog :
        (/\ ~reportLog[k].raised
         /\ ~SplitRaises(reportLog[k].call.old)
         /\ ~SplitRaises(reportLog[k].call.new)) =>
            LET c == reportLog[k].call
                b == BookmarksOf(reportLog[k].configBefore)
                a == BookmarksOf(ConfigAfter(k))
            IN  /\ Len(a) = Len(b)
                /\ \A i \in DOMAIN b :
                      a[i] = IF b[i].Property = FieldOf(c.old) /\ b[i].Entity = TableOf(c.old)
                             THEN [Property |-> FieldOf(c.new), Entity |-> TableOf(c.new)]
                             ELSE b[i]

\* The isInvertedSelectionMode key exists in objects.data[*].properties of
\* the config and no objects.general[*].properties.filter exists.
SlicerToReset(config) ==
    /\ config.objects # Nothing
    /\ "data" \in DOMAIN config.objects[1]
    /\ \E i \in DOMAIN config.objects[1].data :
          "isInvertedSelectionMode" \in DOMAIN config.objects[1].data[i].properties
    /\ "general" \in DOMAIN config.objects[1] =>
          \A i \in DOMAIN config.objects[1].general :
              "filter" \notin DOMAIN config.objects[1].general[i].properties

\* The config without the isInvertedSelectionMode key in
\* objects.data[*].properties, every other key kept.
SlicerReset(config) ==
    [config EXCEPT !.objects[1].data =
        [i \in DOMAIN @ |->
            [@[i] EXCEPT !.properties =
                [key \in DOMAIN @ \ {"isInvertedSelectionMode"} |-> @[key]]]]]

\* C20: after Report.update_slicers, every slicer whose config had the
\* isInvertedSelectionMode key in objects.data[*].properties and no
\* objects.general[*].properties.filter holds the re-encoded config without
\* that key, every other key kept, and has added 1 to Report.updated;
\* every other slicer is unchanged and has added nothing.
C20_SlicerReset ==
    \A k \in DOMAIN reportLog :
        LET before  == reportLog[k].before
            slicers == {pos \in Range(VisualPositions(before, 1)) :
                           JsonLoads(before[pos[1]][pos[2]].config).visualType
                               = Some(Text("slicer"))}
            ToReset(pos) == SlicerToReset(JsonLoads(before[pos[1]][pos[2]].config))
        IN  /\ ~reportLog[k].raised
            /\ \A pos \in slicers :
                  LayoutAfter(k)[pos[1]][pos[2]] =
                      IF ToReset(pos)
                      THEN [before[pos[1]][pos[2]] EXCEPT !.config =
                               JsonDumps(SlicerReset(JsonLoads(@)))]
                      ELSE before[pos[1]][pos[2]]
            /\ UpdatedAfter(k) = reportLog[k].updatedBefore
                                 + Cardinality({pos \in slicers : ToReset(pos)})

\* The paths a running worker reads or writes: its report and its temp
\* archive.
WorkerPaths(w) ==
    IF workers[w].pc = "idle" THEN {}
    ELSE {workers[w].path[1], Resolve(Report_temp_filepath(workers[w].path[1]), cwd)}

\* C21: no two running workers of replace_field_in_all_reports share a
\* path (the report and the temp archive of one are different from those
\* of the other), and when the driver has ended no task has raised and
\* every report holds what replace_field alone makes of it.
C21_WorkersIsolated ==
    /\ \A v, w \in Workers : v # w => WorkerPaths(v) \cap WorkerPaths(w) = {}
    /\ batches = <<>> =>
          /\ ~failed
          /\ DOMAIN disk.names = DOMAIN diskBefore.names
          /\ \A path \in DOMAIN diskBefore.names :
                FileAt(disk, path) =
                    IF path.ext = ".pbix" /\ path.base # ModelName.base
                    THEN ReplaceFieldAlone(FileAt(diskBefore, path))
                    ELSE FileAt(diskBefore, path)

\* Some object of the parsed sub-documents of the visual carries X at one
\* of the keys queryRef, Name, queryName.
CarriesAtKey(visual_layout, X) ==
    LET InQuery(q) == \/ \E i \in DOMAIN q.From : q.From[i].Name = X
                      \/ \E i \in DOMAIN q.Select : q.Select[i].Name = X
        config  == JsonLoads(visual_layout.config)
        filters == JsonLoads(visual_layout.filters)
    IN  \/ InQuery(config.prototypeQuery)
        \/ \E i \in DOMAIN config.projections : config.projections[i] = X
        \/ \E i \in DOMAIN filters : filters[i].filter # Nothing /\ InQuery(filters[i].filter[1])
        \/ /\ visual_layout.query # Nothing
           /\ \E i \in DOMAIN JsonLoads(visual_layout.query[1]).Commands :
                 InQuery(JsonLoads(visual_layout.query[1]).Commands[i])
        \/ /\ visual_layout.dataTransforms # Nothing
           /\ LET dt == JsonLoads(visual_layout.dataTransforms[1])
              IN  \/ \E i \in DOMAIN dt.selects : dt.selects[i].queryName = X
                  \/ \E i \in DOMAIN dt.queryMetadata.Select : dt.queryMetadata.Select[i].Name = X

\* C22: DataVisual.update_fields(old, new) takes the visual for a match
\* (and, unless a step raises, rewrites it and sets updated to 1) if and
\* only if some object of its sub-documents carries old_qualified at one of
\* the keys queryRef, Name, queryName.
C22_FindFieldByKey ==
    \A k \in DOMAIN visualLog :
        LET b == visualLog[k].before
            c == visualLog[k].call
        IN  /\ ~DataVisual_init_raises(b) =>
                  (DataVisual_find_field(b, c.old) <=> CarriesAtKey(b, c.old))
            /\ ~visualLog[k].raised =>
                  (visualLog[k].updated = 1 <=> CarriesAtKey(b, c.old))

\* The running call of SpecSteps has finished: it raised, found nothing to
\* do, or wrote its sub-documents back.
CallFinished ==
    /\ visualLog # <<>>
    /\ \/ visualLog[1].raised
       \/ visualLog[1].program = <<>>
       \/ visualLog[1].updated = 1

\* The statement-by-statement run ends as DataVisual_update_fields says.
StepsAgreeWithCall ==
    CallFinished =>
        LET s == visualLog[1]
            r == DataVisual_update_fields(s.before, s.call.old, s.call.new)
        IN  /\ visual = r.layout
            /\ s.updated = r.updated
            /\ s.raised = r.raised

\* The identifiers of a semantic query: the Name of its Select entries.
SelectNames(q) == [i \in DOMAIN q.Select |-> q.Select[i].Name]

\* The identifiers of dataTransforms: selects.queryName and
\* queryMetadata.Select.Name.
TransformNames(data_transforms) ==
    [queryName |-> [i \in DOMAIN data_transforms.selects |->
                       data_transforms.selects[i].queryName],
     Name      |-> [i \in DOMAIN data_transforms.queryMetadata.Select |->
                       data_transforms.queryMetadata.Select[i].Name]]

\* The statements whose selection is keyed on old_qualified.
KeyedSteps ==
    {"update_select_table_aliases", "update_select_fields",
     "update_selects_tables", "update_selects_fields",
     "update_selects_display_names"}

\* The sub-documents as update_fields leaves them, from those at the start.
ConfigDone(s) ==
    Config_update_fields(s.start[1].config, s.call.old, s.call.new,
        TableOf(s.call.old), TableOf(s.call.new), FieldOf(s.call.old), FieldOf(s.call.new))

DataTransformsDone(s) ==
    IF s.start[1].dataTransforms = Nothing THEN Nothing
    ELSE Some(DataTransforms_update_fields(s.start[1].dataTransforms[1],
            s.call.old, s.call.new, TableOf(s.call.old), TableOf(s.call.new),
            FieldOf(s.call.old), FieldOf(s.call.new)))

QueryDone(s) ==
    IF s.start[1].query = Nothing THEN Nothing
    ELSE Some(Query_update_fields(s.start[1].query[1],
            s.call.old, s.call.new, TableOf(s.call.old), TableOf(s.call.new),
            FieldOf(s.call.old), FieldOf(s.call.new)))

\* C23: within each sub-document rewrite, every statement whose selection
\* is keyed on old_qualified runs while the identifiers (Select.Name,
\* selects.queryName, queryMetadata.Select.Name, projections.queryRef) are
\* still those of the start of the call, that is before the statement that
\* overwrites them; and the sub-documents are processed in the order
\* Config, DataTransforms, Query, Filters: while one is being rewritten the
\* earlier ones are finished and the later ones untouched.
C23_IdentifierLast ==
    (visualLog # <<>> /\ visualLog[1].pc <= Len(visualLog[1].program)) =>
        LET s == visualLog[1]
            label == s.program[s.pc]
            docs == s.docs[1]
            start == s.start[1]
        IN  /\ (label.step \in KeyedSteps /\ label.doc # "dataTransforms") =>
                   SelectNames(QueryOfStep(docs, label)) = SelectNames(QueryOfStep(start, label))
            /\ (label.step \in KeyedSteps /\ label.doc = "config") =>
                   docs.config.projections = start.config.projections
            /\ (label.step \in KeyedSteps /\ label.doc = "dataTransforms") =>
                   TransformNames(docs.dataTransforms[1]) = TransformNames(start.dataTransforms[1])
            /\ label.doc = "config" =>
                   /\ docs.dataTransforms = start.dataTransforms
                   /\ docs.query = start.query
                   /\ docs.filters = start.filters
            /\ label.doc = "dataTransforms" =>
                   /\ docs.config = ConfigDone(s)
                   /\ docs.query = start.query
                   /\ docs.filters = start.filters
            /\ label.doc = "query" =>
                   /\ docs.config = ConfigDone(s)
                   /\ docs.dataTransforms = DataTransformsDone(s)
                   /\ docs.filters = start.filters
            /\ label.doc = "filters" =>
                   /\ docs.config = ConfigDone(s)
                   /\ docs.dataTransforms = DataTransformsDone(s)
                   /\ docs.query = QueryDone(s)

\* A call renaming Sales.Qty stands before the statement that overwrites
\* Select.Name of a command of the query sub-document: the keyed statements
\* have given the entry still named old its new Property, and config and
\* dataTransforms have been rewritten.
C23_Witness ==
    /\ visualLog # <<>>
    /\ visualLog[1].pc <= Len(visualLog[1].program)
    /\ LET s == visualLog[1]
           label == s.program[s.pc]
       IN  /\ label.doc = "query"
           /\ label.step = "update_select_table_fields"
           /\ FieldOf(s.call.old) # FieldOf(s.call.new)
           /\ \E i \in DOMAIN QueryOfStep(s.docs[1], label).Select :
                 /\ QueryOfStep(s.docs[1], label).Select[i].Name = s.call.old
                 /\ QueryOfStep(s.docs[1], label).Select[i].Property = FieldOf(s.call.new)
                 /\ QueryOfStep(s.start[1], label).Select[i].Property = FieldOf(s.call.old)
           /\ s.docs[1].config # s.start[1].config
           /\ s.docs[1].dataTransforms # s.start[1].dataTransforms

\* The sub-document strings of a layout, by option; a missing one is Nothing.
OptionStrings(visual_layout) ==
    [config         |-> Some(visual_layout.config),
     filters        |-> Some(visual_layout.filters),
     query          |-> visual_layout.query,
     dataTransforms |-> visual_layout.dataTransforms]

\* C24: after a visual rewrite, the JSON-encoded string of a sub-document
\* whose document the rewriters did not change is exactly the string it was
\* before the call.
C24_UnchangedStringsKept ==
    \A k \in DOMAIN visualLog :
        visualLog[k].updated = 1 =>
            \A option \in {"config", "filters", "query", "dataTransforms"} :
                LET before == OptionStrings(visualLog[k].before)[option]
                    after  == OptionStrings(VisualAfter(k))[option]
                IN  (before # Nothing /\ after # Nothing
                     /\ JsonLoads(before[1]) = JsonLoads(after[1]))
                        => after = before

\* The positions the loop of Report.update_fields visits: all of them, or
\* those up to the first visual whose update_fields raises.
VisitedPositions(tree, old, new) ==
    LET positions == VisualPositions(tree, 1)
        RaisesAt(n) ==
            /\ GenericVisual_is_data_visual(tree[positions[n][1]][positions[n][2]])
            /\ Report_DataVisual_update_fields(
                   tree[positions[n][1]][positions[n][2]], old, new).raised
    IN  {positions[n] : n \in {m \in DOMAIN positions :
                                 \A l \in 1..(m - 1) : ~RaisesAt(l)}}

\* The visited data visuals for which find_field was evaluated and answered
\* true for old_qualified, by position.
MatchedVisuals(tree, old, new) ==
    {p \in VisitedPositions(tree, old, new) :
        /\ GenericVisual_is_data_visual(tree[p[1]][p[2]])
        /\ ~DataVisual_init_raises(tree[p[1]][p[2]])
        /\ ~SplitRaises(old)
        /\ ~SplitRaises(new)
        /\ DataVisual_find_field(tree[p[1]][p[2]], old)}

\* C25: after any sequence of update_fields calls on one Report,
\* Report.updated is the total number of visual rewrites: every call adds
\* one for each data visual whose predicate matched and nothing for any
\* other visual, and the counter never decreases.
C25_UpdatedCountsRewrites ==
    \A k \in DOMAIN reportLog :
        /\ UpdatedAfter(k) >= reportLog[k].updatedBefore
        /\ UpdatedAfter(k) - reportLog[k].updatedBefore =
               Cardinality(MatchedVisuals(reportLog[k].before, reportLog[k].call.old,
                                          reportLog[k].call.new))

\* C26: SemanticQuery.update_fields rewrites every Where condition in which
\* some Property, the first or a later one, equals old_field: every Source
\* of the condition becomes the alias of new_table and every Property
\* becomes new_field; a condition without such a Property is unchanged.
C26_WhereRewritten ==
    queryCall # Nothing =>
        /\ Len(query.Where) = Len(queryBefore.Where)
        /\ \A i \in DOMAIN queryBefore.Where :
              IF \E k \in DOMAIN queryBefore.Where[i] :
                     queryBefore.Where[i][k].Property = FieldOf(queryCall[1].old)
              THEN \E j \in DOMAIN query.From :
                      /\ query.From[j].Entity = TableOf(queryCall[1].new)
                      /\ \A k \in DOMAIN query.Where[i] :
                            /\ query.Where[i][k].Source = query.From[j].Name
                            /\ query.Where[i][k].Property = FieldOf(queryCall[1].new)
              ELSE query.Where[i] = queryBefore.Where[i]

\* objects.dataPoint of config and of dataTransforms of a layout: a pair
\* of optional sequences of nested objects.
DatapointsOf(visual_layout) ==
    <<DatapointOf(JsonLoads(visual_layout.config).objects),
      IF visual_layout.dataTransforms = Nothing THEN Nothing
      ELSE DatapointOf(JsonLoads(visual_layout.dataTransforms[1]).objects)>>

\* C27: in objects.dataPoint of config and of dataTransforms a visual
\* rewrite changes exactly the nested objects with Property == old_field
\* and Entity == old_table, to Property == new_field and Entity ==
\* new_table; every other object keeps its Property and Entity.
C27_DatapointsExact ==
    \A k \in DOMAIN visualLog :
        visualLog[k].updated = 1 =>
            \A d \in 1..2 :
                LET before == DatapointsOf(visualLog[k].before)[d]
                    after  == DatapointsOf(VisualAfter(k))[d]
                    c      == visualLog[k].call
                IN  /\ (before = Nothing) = (after = Nothing)
                    /\ before # Nothing =>
                          /\ Len(after[1]) = Len(before[1])
                          /\ \A i \in DOMAIN before[1] :
                                IF /\ before[1][i].Property = FieldOf(c.old)
                                   /\ before[1][i].Entity = TableOf(c.old)
                                THEN /\ after[1][i].Property = FieldOf(c.new)
                                     /\ after[1][i].Entity = TableOf(c.new)
                                ELSE /\ after[1][i].Property = before[1][i].Property
                                     /\ after[1][i].Entity = before[1][i].Entity

\* The reference [Source, Property] of query q is to a field named
\* old_field of a table other than old_table.
OtherTableReference(q, r, table_old, field_old) ==
    /\ r.Property = field_old
    /\ \E j \in DOMAIN q.From : q.From[j].Name = r.Source /\ q.From[j].Entity # table_old

\* The OrderBy entries and the references of the Where conditions of the
\* query before that are to old_field of another table are the same in the
\* query after.
OtherTableReferencesKept(before, after, table_old, field_old) ==
    /\ Len(after.OrderBy) = Len(before.OrderBy)
    /\ Len(after.Where) = Len(before.Where)
    /\ \A i \in DOMAIN before.OrderBy :
          OtherTableReference(before, before.OrderBy[i], table_old, field_old)
              => after.OrderBy[i] = before.OrderBy[i]
    /\ \A i \in DOMAIN before.Where :
          /\ Len(after.Where[i]) = Len(before.Where[i])
          /\ \A k \in DOMAIN before.Where[i] :
                OtherTableReference(before, before.Where[i][k], table_old, field_old)
                    => after.Where[i][k] = before.Where[i][k]

\* The entries [Entity, Property, ...] of the sequence before that are on
\* old_field of another table are the same in the sequence after.
OtherTableEntriesKept(before, after, table_old, field_old) ==
    /\ Len(after) = Len(before)
    /\ \A i \in DOMAIN before :
          (before[i].Property = field_old /\ before[i].Entity # table_old)
              => after[i] = before[i]

\* C28: a visual rewrite of old_table.old_field changes no reference to a
\* field named old_field of another table: such visual filter entries with
\* their filter sub-queries, queryMetadata.Filters entries, OrderBy entries
\* and references of Where conditions keep their Entity or Source and their
\* Property.
C28_OtherTablesKept ==
    \A n \in DOMAIN visualLog :
        visualLog[n].updated = 1 =>
            LET before == DataVisual_documents(visualLog[n].before)
                after  == DataVisual_documents(VisualAfter(n))
                table_old == TableOf(visualLog[n].call.old)
                field_old == FieldOf(visualLog[n].call.old)
            IN  /\ OtherTableEntriesKept(before.filters, after.filters, table_old, field_old)
                /\ before.dataTransforms # Nothing =>
                      OtherTableEntriesKept(before.dataTransforms[1].queryMetadata.Filters,
                                            after.dataTransforms[1].queryMetadata.Filters,
                                            table_old, field_old)
                /\ OtherTableReferencesKept(before.config.prototypeQuery,
                                            after.config.prototypeQuery, table_old, field_old)
                /\ before.query # Nothing =>
                      \A i \in DOMAIN before.query[1].Commands :
                          OtherTableReferencesKept(before.query[1].Commands[i],
                                                   after.query[1].Commands[i],
                                                   table_old, field_old)

\* C29: SemanticQuery.update_fields leaves every Select entry whose Name
\* differs from old_qualified as it was (same Name, Property and Source),
\* and leaves the number and the order of the Select entries as they were:
\* the entries named old_qualified are renamed in place.
C29_OtherSelectsKept ==
    queryCall # Nothing =>
        /\ Len(query.Select) = Len(queryBefore.Select)
        /\ \A i \in DOMAIN queryBefore.Select :
              IF queryBefore.Select[i].Name # queryCall[1].old
              THEN query.Select[i] = queryBefore.Select[i]
              ELSE query.Select[i].Name = queryCall[1].new

\* A call that renamed one Select entry of a query holding another entry
\* after it that is not named old_qualified.
C29_Witness ==
    /\ queryCall # Nothing
    /\ FieldOf(queryCall[1].old) # FieldOf(queryCall[1].new)
    /\ \E i, j \in DOMAIN queryBefore.Select :
          /\ i < j
          /\ queryBefore.Select[i].Name = queryCall[1].old
          /\ query.Select[i].Property = FieldOf(queryCall[1].new)
          /\ queryBefore.Select[j].Name # queryCall[1].old
          /\ queryBefore.Select[j].Property # FieldOf(queryCall[1].new)

====
